---- MODULE Spec2Model ----
(***************************************************************************)
(* Remote-skill reconciliation engine of ai-factory-extension-remote-skills *)
(* (commands/skill.js, lib/lock.js, lib/installer.js, lib/remote-skill.js). *)
(*                                                                         *)
(* One invocation of the CLI at a time runs one of the commands            *)
(* add / remove / update / sync against a project directory that holds     *)
(* the manifest (.ai-factory.json), the lock file                          *)
(* (remote-skills-lock.json) and the agents' skills directories.           *)
(*                                                                         *)
(* Representation.                                                         *)
(*  - A JS object whose keys are iterated in insertion order (lock.skills, *)
(*    lock.agents) is a sequence of entries in key order.                  *)
(*  - A source URI is a sequence of tokens, each token either a delimiter  *)
(*    ("github:", "/", "#") or a delimiter-free piece of text; names and   *)
(*    paths are strings.                                                   *)
(*  - An agent's skillsDir is fixed per agent id and distinct per agent,   *)
(*    so the directory <skillsDir>/<skillName> is the pair <<id, name>>.   *)
(*  - installedAt is the reading of a logical clock.                       *)
(***************************************************************************)
EXTENDS Integers, Sequences, FiniteSets, TLC

\* ------------------------------------------------------------------
\* Bounds
\* ------------------------------------------------------------------

\* Number of add/update commands that may persist a clock reading (installedAt).
MaxClock == 2

\* Number of entries of a tar archive.
MaxEntries == 3

\* Number of tokens of the ref of a source URI.
MaxRefLen == 3

\* ------------------------------------------------------------------
\* Universe of the environment
\* ------------------------------------------------------------------

AgentIds == {"claude", "opencode"}

SkillNames == {"writer", "reviewer"}

\* undefined (an optional string that was not given)
None == "<none>"

\* the lock file does not exist
NoFile == [missing |-> TRUE]

\* Array.prototype.find found no detected skill
NoMatch == [name |-> "<none>", relativePath |-> "<none>"]

\* Generic helpers ---------------------------------------------------

Range(s) == {s[i] : i \in 1..Len(s)}

Includes(s, x) == \E i \in 1..Len(s) : s[i] = x

\* Array.prototype.find: the first element satisfying Test, NoMatch if there is none.
FindFirst(s, Test(_)) ==
  IF \E i \in 1..Len(s) : Test(s[i])
  THEN s[CHOOSE i \in 1..Len(s) : Test(s[i]) /\ \A j \in 1..(i-1) : ~Test(s[j])]
  ELSE NoMatch

\* Sequences over S without repetition (orders of a manifest's agent list).
Perms(S) == {s \in UNION {[1..n -> S] : n \in 0..Cardinality(S)} :
               \A i, j \in 1..Len(s) : i # j => s[i] # s[j]}

\* What selectMultiple can return for the choices s: the chosen values, without
\* repetition, in the order the user typed them.
Selections(s) == Perms(Range(s))

\* ------------------------------------------------------------------
\* lib/lock.js
\* ------------------------------------------------------------------

createEmptyLock == [version |-> 1, skills |-> <<>>, agents |-> <<>>]

getAllSkillNames(l) == [i \in 1..Len(l.skills) |-> l.skills[i].name]

SkillKeySet(l) == {l.skills[i].name : i \in 1..Len(l.skills)}

AgentKeys(l) == [i \in 1..Len(l.agents) |-> l.agents[i].id]

AgentKeySet(l) == {l.agents[i].id : i \in 1..Len(l.agents)}

\* lock.skills[name]
SkillInfo(l, name) == l.skills[CHOOSE i \in 1..Len(l.skills) : l.skills[i].name = name]

\* lock.agents[id]  (<<>> stands for undefined where the caller uses ?.)
AgentSkills(l, id) ==
  IF id \in AgentKeySet(l)
  THEN l.agents[CHOOSE i \in 1..Len(l.agents) : l.agents[i].id = id].skills
  ELSE <<>>

\* lock.skills[name] = info : overwrite in place, or insert as the last key
SetSkill(skills, entry) ==
  IF \E i \in 1..Len(skills) : skills[i].name = entry.name
  THEN [i \in 1..Len(skills) |-> IF skills[i].name = entry.name THEN entry ELSE skills[i]]
  ELSE Append(skills, entry)

\* lock.agents[id] = list : overwrite in place, or insert as the last key
SetAgent(agents, id, list) ==
  IF \E i \in 1..Len(agents) : agents[i].id = id
  THEN [i \in 1..Len(agents) |-> IF agents[i].id = id THEN [id |-> id, skills |-> list] ELSE agents[i]]
  ELSE Append(agents, [id |-> id, skills |-> list])

\* the body of the loop of addSkillToLock pushing the name without the includes test
AddSkillForAgent_Push(agents, id, skillName) ==
  LET cur == IF \E i \in 1..Len(agents) : agents[i].id = id
             THEN agents[CHOOSE i \in 1..Len(agents) : agents[i].id = id].skills
             ELSE <<>>
  IN SetAgent(agents, id, Append(cur, skillName))

\* the body of the loop of addSkillToLock for one agent id
AddSkillForAgent(agents, id, skillName) ==
  LET cur == IF \E i \in 1..Len(agents) : agents[i].id = id
             THEN agents[CHOOSE i \in 1..Len(agents) : agents[i].id = id].skills
             ELSE <<>>
  IN SetAgent(agents, id, IF Includes(cur, skillName) THEN cur ELSE Append(cur, skillName))

\* for (const skillName of allNames) push it on lock.agents[id] unless included
RECURSIVE AddAllSkills(_, _, _)
AddAllSkills(agents, id, names) ==
  IF names = <<>> THEN agents
  ELSE AddAllSkills(AddSkillForAgent(agents, id, Head(names)), id, Tail(names))

RECURSIVE AddSkillForAgents(_, _, _)
AddSkillForAgents(agents, ids, skillName) ==
  IF ids = <<>> THEN agents
  ELSE AddSkillForAgents(AddSkillForAgent(agents, Head(ids), skillName), Tail(ids), skillName)

addSkillToLock(l, skillName, info, agentIds, now) ==
  [l EXCEPT
     !.skills = SetSkill(l.skills,
                  [name |-> skillName, source |-> info.source, sourceType |-> info.sourceType,
                   ref |-> info.ref, path |-> info.path, installedAt |-> now]),
     !.agents = AddSkillForAgents(l.agents, agentIds, skillName)]

\* removeSkillFromLock that forgets to filter the agents' lists
removeSkillFromLock_KeepNames(l, skillName) ==
  [l EXCEPT !.skills = SelectSeq(l.skills, LAMBDA e : e.name # skillName)]

\* removeSkillFromLock that forgets to delete the agents left without a skill
removeSkillFromLock_KeepEmpty(l, skillName) ==
  [l EXCEPT
     !.skills = SelectSeq(l.skills, LAMBDA e : e.name # skillName),
     !.agents = [i \in 1..Len(l.agents) |->
                   [id |-> l.agents[i].id,
                    skills |-> SelectSeq(l.agents[i].skills, LAMBDA s : s # skillName)]]]

removeSkillFromLock(l, skillName) ==
  LET filtered == [i \in 1..Len(l.agents) |->
                     [id |-> l.agents[i].id,
                      skills |-> SelectSeq(l.agents[i].skills, LAMBDA s : s # skillName)]]
  IN [l EXCEPT
        !.skills = SelectSeq(l.skills, LAMBDA e : e.name # skillName),
        !.agents = SelectSeq(filtered, LAMBDA a : Len(a.skills) # 0)]

\* loadLock: a missing or invalid file, or one without a truthy version, is an empty lock
loadLock(file) ==
  IF file # NoFile /\ file.version # 0
  THEN [version |-> file.version, skills |-> file.skills, agents |-> file.agents]
  ELSE createEmptyLock

\* saveLock: the whole record replaces the file
saveLock(l) == l

\* ------------------------------------------------------------------
\* lib/installer.js
\* ------------------------------------------------------------------

installSkillForAgent(d, agentId, skillName) == d \cup {<<agentId, skillName>>}

removeSkillForAgent(d, agentId, skillName) == d \ {<<agentId, skillName>>}

skillExistsForAgent(d, agentId, skillName) == <<agentId, skillName>> \in d

\* ------------------------------------------------------------------
\* lib/remote-skill.js
\* ------------------------------------------------------------------

RECURSIVE Join(_, _)
Join(parts, sep) ==
  IF parts = <<>> THEN ""
  ELSE IF Len(parts) = 1 THEN parts[1]
  ELSE parts[1] \o sep \o Join(Tail(parts), sep)

\* String.prototype.indexOf on a token sequence (0 when absent, else the 1-based index)
IndexOf(tokens, t) ==
  IF Includes(tokens, t)
  THEN CHOOSE i \in 1..Len(tokens) : tokens[i] = t /\ \A j \in 1..(i-1) : tokens[j] # t
  ELSE 0

\* String.prototype.split('/') on a token sequence
RECURSIVE SplitSlash(_, _, _)
SplitSlash(tokens, cur, acc) ==
  IF tokens = <<>> THEN Append(acc, cur)
  ELSE IF Head(tokens) = "/" THEN SplitSlash(Tail(tokens), "", Append(acc, cur))
  ELSE SplitSlash(Tail(tokens), cur \o Head(tokens), acc)

ParseError == [ok |-> FALSE, host |-> "", owner |-> "", repo |-> "", skillPath |-> None, ref |-> ""]

parseRemoteSource(uri) ==
  IF uri = <<>> \/ Head(uri) # "github:" THEN ParseError
  ELSE
    LET body0   == Tail(uri)
        hashIdx == IndexOf(body0, "#")
        ref     == IF hashIdx # 0 THEN Join(SubSeq(body0, hashIdx + 1, Len(body0)), "") ELSE ""
        body    == IF hashIdx # 0 THEN SubSeq(body0, 1, hashIdx - 1) ELSE body0
        parts   == SplitSlash(body, "", <<>>)
    IN IF Len(parts) < 2 THEN ParseError
       ELSE [ok |-> TRUE, host |-> "github", owner |-> parts[1], repo |-> parts[2],
             skillPath |-> IF Len(parts) > 2 THEN Join(SubSeq(parts, 3, Len(parts)), "/") ELSE None,
             ref |-> ref]

\* the directories scanForSkills skips: names starting with "." or "_", and node_modules
SkippedDirs == {".github", "_drafts", "node_modules"}

scanForSkills(children, relativePrefix) ==
  LET kept == SelectSeq(children, LAMBDA c : c.dir \notin SkippedDirs /\ c.hasMd)
  IN [i \in 1..Len(kept) |->
        [name |-> IF kept[i].name # "" THEN kept[i].name ELSE kept[i].dir,
         relativePath |-> IF relativePrefix # "" THEN relativePrefix \o "/" \o kept[i].dir
                          ELSE kept[i].dir]]

\* detectSkills looking into skills/ before it looks for SKILL.md at the root
detectSkills_SkillsFirst(tree, dirName) ==
  IF tree.hasSkillsDir /\ Len(scanForSkills(tree.skills, "skills")) > 0
  THEN [ok |-> TRUE, skills |-> scanForSkills(tree.skills, "skills")]
  ELSE IF tree.rootMd
  THEN [ok |-> TRUE,
        skills |-> << [name |-> IF tree.rootName # "" THEN tree.rootName ELSE dirName,
                       relativePath |-> ""] >>]
  ELSE IF Len(scanForSkills(tree.top, "")) > 0
  THEN [ok |-> TRUE, skills |-> scanForSkills(tree.top, "")]
  ELSE [ok |-> FALSE, skills |-> <<>>]

\* detectSkills on an extracted tree whose root directory is called dirName
detectSkills(tree, dirName) ==
  IF tree.rootMd
  THEN [ok |-> TRUE,
        skills |-> << [name |-> IF tree.rootName # "" THEN tree.rootName ELSE dirName,
                       relativePath |-> ""] >>]
  ELSE IF tree.hasSkillsDir /\ Len(scanForSkills(tree.skills, "skills")) > 0
  THEN [ok |-> TRUE, skills |-> scanForSkills(tree.skills, "skills")]
  ELSE IF Len(scanForSkills(tree.top, "")) > 0
  THEN [ok |-> TRUE, skills |-> scanForSkills(tree.top, "")]
  ELSE [ok |-> FALSE, skills |-> <<>>]

\* ------------------------------------------------------------------
\* The environment: what a download can bring back, what a user can type
\* ------------------------------------------------------------------

Child(dir, name) == [dir |-> dir, hasMd |-> TRUE, name |-> name]

Tree(rootMd, rootName, hasSkillsDir, skills, top) ==
  [rootMd |-> rootMd, rootName |-> rootName, hasSkillsDir |-> hasSkillsDir,
   skills |-> skills, top |-> top]

\* a repository without any SKILL.md
NoTree == Tree(FALSE, "", FALSE, <<>>, <<>>)

\* a single skill at the repository root
RootTree == Tree(TRUE, "writer", FALSE, <<>>, <<>>)

\* a collection under skills/, next to a skipped directory
CollectionTree ==
  Tree(FALSE, "", TRUE, <<Child("writer", ""), Child("reviewer", "")>>, <<Child("_drafts", "")>>)

\* the collection after an upstream change: the SKILL.md under skills/reviewer
\* now declares the name "writer", the one under skills/writer the name "reviewer"
SwapTree ==
  Tree(FALSE, "", TRUE, <<Child("reviewer", "writer"), Child("writer", "reviewer")>>, <<>>)

\* What the user may pass to `skill add`
AddUris ==
  { <<"github:", "acme", "/", "pack">>,
    <<"github:", "acme", "/", "pack", "#", "dev">>,
    <<"github:", "acme", "/", "pack", "/", "skills", "/", "reviewer", "#", "dev">>,
    <<"gitlab:", "acme", "/", "pack">> }

\* The universe of the main specification
MainWorld ==
  [uris      |-> AddUris,
   trees     |-> {RootTree, CollectionTree, NoTree},
   manifests |-> {<<>>, <<"claude">>, <<"claude", "opencode">>},
   branches  |-> {"main"},
   maxClock  |-> MaxClock]

\* The universe of the specification of multi-group updates: one more clock
\* reading (two adds from different refs, then an update), fewer inputs
GroupsWorld ==
  [uris      |-> {<<"github:", "acme", "/", "pack", "/", "writer">>,
                  <<"github:", "acme", "/", "pack", "#", "dev">>},
   trees     |-> {CollectionTree, NoTree},
   manifests |-> {<<"claude">>, <<"opencode", "claude">>},
   branches  |-> {"main"},
   maxClock  |-> MaxClock + 1]

\* The universe of the specification of upstream renames: one repository that
\* is a collection when it is added and has its names swapped later
RenameWorld ==
  [uris      |-> {<<"github:", "acme", "/", "pack">>},
   trees     |-> {CollectionTree, SwapTree},
   manifests |-> {<<"claude">>, <<"claude", "opencode">>},
   branches  |-> {"main"},
   maxClock  |-> MaxClock]

\* ------------------------------------------------------------------
\* State
\* ------------------------------------------------------------------

VARIABLES
  world,      \* the universe the environment draws from (never changes)
  manifest,   \* ids of the agents declared in .ai-factory.json, in file order
  lockFile,   \* remote-skills-lock.json (NoFile until first saved)
  disk,       \* <<agent id, skill name>> : the skill directory exists for the agent
  clock,      \* number of clock readings persisted so far
  tmpDirs,    \* temporary directories of the running invocation (by download number)
  pc,         \* position of the running invocation
  run         \* local variables of the running invocation

vars == <<world, manifest, lockFile, disk, clock, tmpDirs, pc, run>>

NoAfter == [sync |-> FALSE, complete |-> FALSE, worked |-> FALSE]

NoRun ==
  [cmd |-> None, status |-> None, source |-> <<>>, agents |-> <<>>, lock |-> createEmptyLock,
   parsed |-> ParseError, allDetected |-> <<>>, selectedSkills |-> <<>>,
   names |-> <<>>, groups |-> <<>>, gi |-> 0, glog |-> <<>>,
   installed |-> {}, cleaned |-> {}, saved |-> 0, failures |-> {},
   startLock |-> NoFile, startDisk |-> {}, after |-> NoAfter]

InitWith(w) ==
  /\ world = w
  /\ manifest \in w.manifests
  /\ lockFile = NoFile
  /\ disk = {}
  /\ clock = 0
  /\ tmpDirs = {}
  /\ pc = "idle"
  /\ run = NoRun

Init == InitWith(MainWorld)

\* loadManifest + getAgents
getAgents(m) == m

\* A command starts: its locals are fresh
Begin(cmd) ==
  [NoRun EXCEPT !.cmd = cmd, !.status = "running", !.agents = getAgents(manifest),
                !.startLock = lockFile, !.startDisk = disk]

\* cleanupTemp that removes nothing
cleanupTemp_Keep(dirs, n) == dirs

\* cleanupTemp(repoDir): removes the directory of download number n
cleanupTemp(dirs, n) == dirs \ {n}

\* basename(repoDir): GitHub archives extract to <repo>-<ref>
DirName(p) == p.repo \o "-" \o p.ref

\* the run of installSkillForAgent calls stopping after the first agent
InstallFor_FirstOnly(st, skillName, ags) ==
  IF ags = <<>> \/ st.failed THEN st
  ELSE IF st.fuel = 0 THEN [st EXCEPT !.failed = TRUE]
  ELSE [st EXCEPT !.disk = installSkillForAgent(@, Head(ags), skillName),
                  !.installed = @ \cup {<<Head(ags), skillName>>},
                  !.fuel = @ - 1]

\* A run of installSkillForAgent calls, in order, for one skill and a list of agents.
\* st = [disk, installed, fuel, failed]: fuel is the number of calls that still
\* succeed before one throws.
RECURSIVE InstallFor(_, _, _)
InstallFor(st, skillName, ags) ==
  IF ags = <<>> \/ st.failed THEN st
  ELSE IF st.fuel = 0 THEN [st EXCEPT !.failed = TRUE]
  ELSE InstallFor([st EXCEPT !.disk = installSkillForAgent(@, Head(ags), skillName),
                             !.installed = @ \cup {<<Head(ags), skillName>>},
                             !.fuel = @ - 1],
                  skillName, Tail(ags))

\* ------------------------------------------------------------------
\* Environment steps between invocations
\* ------------------------------------------------------------------

\* The user edits .ai-factory.json
ManifestChange(m) ==
  /\ pc \in {"idle", "done"}
  /\ m # manifest
  /\ manifest' = m
  /\ pc' = "idle"
  /\ run' = NoRun
  /\ tmpDirs' = {}
  /\ UNCHANGED <<world, lockFile, disk, clock>>

\* The user deletes a skill directory by hand
ExternalDelete(a, s) ==
  /\ pc \in {"idle", "done"}
  /\ <<a, s>> \in disk
  /\ disk' = disk \ {<<a, s>>}
  /\ pc' = "idle"
  /\ run' = NoRun
  /\ tmpDirs' = {}
  /\ UNCHANGED <<world, manifest, lockFile, clock>>

\* The invocation has ended and its history is forgotten
Return ==
  /\ pc = "done"
  /\ pc' = "idle"
  /\ run' = NoRun
  /\ tmpDirs' = {}
  /\ UNCHANGED <<world, manifest, lockFile, disk, clock>>

\* ------------------------------------------------------------------
\* skill add  (skillAddCommand)
\* ------------------------------------------------------------------

\* manifest, parse, resolveDefaultBranch and creation of the temporary directory
AddStart(uri) ==
  /\ pc = "idle"
  /\ clock < world.maxClock
  /\ LET r == [Begin("add") EXCEPT !.source = uri]
         p == parseRemoteSource(uri)
     IN IF Len(r.agents) = 0 \/ ~p.ok
        THEN /\ pc' = "done"
             /\ run' = [r EXCEPT !.status = "exit1",
                          !.failures = {IF Len(r.agents) = 0 THEN "no agents" ELSE "bad source"}]
             /\ UNCHANGED tmpDirs
        ELSE \E branch \in world.branches :
             /\ pc' = "add_download"
             /\ run' = [r EXCEPT !.parsed = [p EXCEPT !.ref = IF p.ref = "" THEN branch ELSE p.ref]]
             /\ tmpDirs' = tmpDirs \cup {1}
  /\ UNCHANGED <<world, manifest, lockFile, disk, clock>>

\* downloadAndExtract fails: the temporary directory is removed, the command exits 1
AddDownloadFail ==
  /\ pc = "add_download"
  /\ tmpDirs' = cleanupTemp(tmpDirs, 1)
  /\ pc' = "done"
  /\ run' = [run EXCEPT !.status = "exit1", !.failures = {"download failed"}]
  /\ UNCHANGED <<world, manifest, lockFile, disk, clock>>

\* downloadAndExtract returns; detectSkills, selection of the skills, loadLock
AddDetect(tree) ==
  /\ pc = "add_download"
  /\ LET det == detectSkills(tree, DirName(run.parsed))
         all == det.skills
         sp  == run.parsed.skillPath
         match == FindFirst(all, LAMBDA s : s.relativePath = sp \/ s.name = sp)
     IN IF ~det.ok
        THEN \* the exception passes through finally
             /\ tmpDirs' = cleanupTemp(tmpDirs, 1)
             /\ pc' = "done"
             /\ run' = [run EXCEPT !.status = "error", !.failures = {"no skills found"}]
        ELSE IF sp # None /\ match = NoMatch
        THEN \* process.exit(1) inside try: the finally block does not run
             /\ UNCHANGED tmpDirs
             /\ pc' = "done"
             /\ run' = [run EXCEPT !.status = "exit1", !.allDetected = all,
                                   !.failures = {"not found in repository"}]
        ELSE \E chosen \in SUBSET {all[i].name : i \in 1..Len(all)} :
             LET sel == IF sp # None THEN <<match>>
                        ELSE IF Len(all) = 1 THEN all
                        ELSE SelectSeq(all, LAMBDA s : s.name \in chosen)
             IN IF Len(sel) = 0
                THEN /\ tmpDirs' = cleanupTemp(tmpDirs, 1)
                     /\ pc' = "done"
                     /\ run' = [run EXCEPT !.status = "ok", !.allDetected = all]
                ELSE /\ UNCHANGED tmpDirs
                     /\ pc' = "add_install"
                     /\ run' = [run EXCEPT !.allDetected = all, !.selectedSkills = sel,
                                           !.lock = loadLock(lockFile)]
  /\ UNCHANGED <<world, manifest, lockFile, disk, clock>>

\* the loop over selectedSkills recording the source together with its ref
RECURSIVE AddSkills_SourceWithRef(_, _, _, _, _)
AddSkills_SourceWithRef(st, skills, ags, p, now) ==
  IF skills = <<>> \/ st.failed THEN st
  ELSE LET skill == Head(skills)
           st1 == InstallFor(st, skill.name, ags)
       IN IF st1.failed THEN st1
          ELSE AddSkills_SourceWithRef([st1 EXCEPT !.lock =
                            addSkillToLock(@, skill.name,
                              [source |-> <<"github:", p.owner, "/", p.repo, "#", p.ref>>,
                               sourceType |-> "github", ref |-> p.ref,
                               path |-> skill.relativePath],
                              ags, now)],
                         Tail(skills), ags, p, now)

\* the loop over selectedSkills: install for each agent, then addSkillToLock.
\* st = [lock, disk, installed, fuel, failed]
RECURSIVE AddSkills(_, _, _, _, _)
AddSkills(st, skills, ags, p, now) ==
  IF skills = <<>> \/ st.failed THEN st
  ELSE LET skill == Head(skills)
           st1 == InstallFor(st, skill.name, ags)
       IN IF st1.failed THEN st1
          ELSE AddSkills([st1 EXCEPT !.lock =
                            addSkillToLock(@, skill.name,
                              [source |-> <<"github:", p.owner, "/", p.repo>>,
                               sourceType |-> "github", ref |-> p.ref,
                               path |-> skill.relativePath],
                              ags, now)],
                         Tail(skills), ags, p, now)

\* the install loop flushing the lock to disk as it goes
AddInstall_Flush(fuel) ==
  /\ pc = "add_install"
  /\ LET st == AddSkills([lock |-> run.lock, disk |-> disk, installed |-> {},
                          fuel |-> fuel, failed |-> FALSE],
                         run.selectedSkills, run.agents, run.parsed, clock + 1)
     IN /\ disk' = st.disk
        /\ lockFile' = saveLock(st.lock)
        /\ IF st.failed
           THEN /\ tmpDirs' = cleanupTemp(tmpDirs, 1)
                /\ pc' = "done"
                /\ run' = [run EXCEPT !.status = "error", !.installed = st.installed,
                                      !.failures = {"install failed"}]
           ELSE /\ UNCHANGED tmpDirs
                /\ pc' = "add_save"
                /\ run' = [run EXCEPT !.lock = st.lock, !.installed = st.installed]
  /\ UNCHANGED <<world, manifest, clock>>

AddInstall(fuel) ==
  /\ pc = "add_install"
  /\ LET st == AddSkills([lock |-> run.lock, disk |-> disk, installed |-> {},
                          fuel |-> fuel, failed |-> FALSE],
                         run.selectedSkills, run.agents, run.parsed, clock + 1)
     IN /\ disk' = st.disk
        /\ IF st.failed
           THEN /\ tmpDirs' = cleanupTemp(tmpDirs, 1)
                /\ pc' = "done"
                /\ run' = [run EXCEPT !.status = "error", !.installed = st.installed,
                                      !.failures = {"install failed"}]
           ELSE /\ UNCHANGED tmpDirs
                /\ pc' = "add_save"
                /\ run' = [run EXCEPT !.lock = st.lock, !.installed = st.installed]
  /\ UNCHANGED <<world, manifest, lockFile, clock>>

\* saveLock, then the finally block
AddSave ==
  /\ pc = "add_save"
  /\ lockFile' = saveLock(run.lock)
  /\ clock' = clock + 1
  /\ tmpDirs' = cleanupTemp(tmpDirs, 1)
  /\ pc' = "done"
  /\ run' = [run EXCEPT !.status = "ok", !.saved = @ + 1]
  /\ UNCHANGED <<world, manifest, disk>>

\* ------------------------------------------------------------------
\* skill remove  (skillRemoveCommand)
\* ------------------------------------------------------------------

\* the directories removed for one skill: those of declared agents whose lock entry lists it
RemovedDirs(l, ags, skillName) ==
  {<<ags[i], skillName>> : i \in {j \in 1..Len(ags) : Includes(AgentSkills(l, ags[j]), skillName)}}

\* the loop over skillsToRemove; st = [lock, disk]
RECURSIVE RemoveSkills(_, _, _)
RemoveSkills(st, ags, names) ==
  IF names = <<>> THEN st
  ELSE RemoveSkills([lock |-> removeSkillFromLock(st.lock, Head(names)),
                     disk |-> st.disk \ RemovedDirs(st.lock, ags, Head(names))],
                    ags, Tail(names))

skillRemoveCommand(name) ==
  /\ pc = "idle"
  /\ LET r == Begin("remove")
         l == loadLock(lockFile)
         allNames == getAllSkillNames(l)
     IN IF Len(r.agents) = 0
        THEN /\ run' = [r EXCEPT !.status = "exit1", !.failures = {"no agents"}]
             /\ UNCHANGED <<lockFile, disk>>
        ELSE IF Len(allNames) = 0
        THEN /\ run' = [r EXCEPT !.status = "ok"]
             /\ UNCHANGED <<lockFile, disk>>
        ELSE IF name # None /\ ~Includes(allNames, name)
        THEN \* console.error, then return
             /\ run' = [r EXCEPT !.status = "ok", !.failures = {"not found in lock"}]
             /\ UNCHANGED <<lockFile, disk>>
        ELSE \E chosen \in Selections(allNames) :
             LET skillsToRemove == IF name # None THEN <<name>> ELSE chosen
                 st == RemoveSkills([lock |-> l, disk |-> disk], r.agents, skillsToRemove)
             IN IF Len(skillsToRemove) = 0
                THEN /\ run' = [r EXCEPT !.status = "ok"]
                     /\ UNCHANGED <<lockFile, disk>>
                ELSE /\ disk' = st.disk
                     /\ lockFile' = saveLock(st.lock)
                     /\ run' = [r EXCEPT !.status = "ok", !.lock = st.lock,
                                         !.names = skillsToRemove, !.saved = 1]
  /\ pc' = "done"
  /\ UNCHANGED <<world, manifest, clock, tmpDirs>>

\* ------------------------------------------------------------------
\* skill update  (skillUpdateCommand)
\* ------------------------------------------------------------------

\* the URI update and sync rebuild from a lock entry: source, plus #ref unless ref is "" or "main"
LockUri(info) ==
  info.source \o (IF info.ref # "" /\ info.ref # "main" THEN <<"#", info.ref>> ELSE <<>>)

\* the key of a source group without the ref
GroupKey_SourceOnly(info) == info.source

\* the key of the source group of a lock entry
GroupKey(info) == info.source \o <<"#", info.ref>>

\* sourceGroups after the loop over the names: an ordered map keyed by source#ref
RECURSIVE UpdateGroups(_, _, _)
UpdateGroups(l, names, acc) ==
  IF names = <<>> THEN acc
  ELSE LET skillName == Head(names)
           info == SkillInfo(l, skillName)
           key == GroupKey(info)
           parsed == parseRemoteSource(LockUri(info))
       IN IF ~Includes(getAllSkillNames(l), skillName) THEN UpdateGroups(l, Tail(names), acc)
          ELSE IF \E i \in 1..Len(acc) : acc[i].key = key
          THEN UpdateGroups(l, Tail(names),
                 [i \in 1..Len(acc) |->
                    IF acc[i].key = key THEN [acc[i] EXCEPT !.skills = Append(@, skillName)]
                    ELSE acc[i]])
          ELSE UpdateGroups(l, Tail(names),
                 Append(acc, [key |-> key, source |-> info.source, ref |-> info.ref,
                              parsedOk |-> parsed.ok, owner |-> parsed.owner,
                              repo |-> parsed.repo, skills |-> <<skillName>>]))

\* manifest, loadLock, choice of the names, grouping by source
UpdateStart(name) ==
  /\ pc = "idle"
  /\ clock < world.maxClock
  /\ LET r == Begin("update")
         l == loadLock(lockFile)
         allNames == getAllSkillNames(l)
     IN IF Len(r.agents) = 0
        THEN /\ pc' = "done"
             /\ run' = [r EXCEPT !.status = "exit1", !.failures = {"no agents"}]
        ELSE IF Len(allNames) = 0
        THEN /\ pc' = "done"
             /\ run' = [r EXCEPT !.status = "ok"]
        ELSE IF name # None /\ ~Includes(allNames, name)
        THEN \* console.error, then return
             /\ pc' = "done"
             /\ run' = [r EXCEPT !.status = "ok", !.failures = {"not found in lock"}]
        ELSE \E chosen \in Selections(allNames) \cup {allNames} :
             LET names == IF name # None THEN <<name>>
                          ELSE IF Len(allNames) > 1 THEN chosen
                          ELSE allNames
                 groups == UpdateGroups(l, names, <<>>)
             IN IF Len(names) = 0
                THEN /\ pc' = "done"
                     /\ run' = [r EXCEPT !.status = "ok"]
                ELSE IF \E i \in 1..Len(groups) : ~groups[i].parsedOk
                THEN \* parseRemoteSource throws while the groups are built
                     /\ pc' = "done"
                     /\ run' = [r EXCEPT !.status = "error", !.lock = l, !.names = names,
                                         !.failures = {"bad source"}]
                ELSE /\ pc' = "upd_group"
                     /\ run' = [r EXCEPT !.lock = l, !.names = names, !.groups = groups, !.gi = 1]
  /\ UNCHANGED <<world, manifest, lockFile, disk, clock, tmpDirs>>

\* the next source group: downloadAndExtract creates its temporary directory
UpdDownloadBegin ==
  /\ pc = "upd_group"
  /\ run.gi <= Len(run.groups)
  /\ \E branch \in world.branches :
       LET g == run.groups[run.gi]
       IN run' = [run EXCEPT !.parsed = [ok |-> TRUE, host |-> "github", owner |-> g.owner,
                                         repo |-> g.repo, skillPath |-> None,
                                         ref |-> IF g.ref = "" THEN branch ELSE g.ref]]
  /\ tmpDirs' = tmpDirs \cup {run.gi}
  /\ pc' = "upd_download"
  /\ UNCHANGED <<world, manifest, lockFile, disk, clock>>

\* downloadAndExtract throws and nothing catches it: the command ends
UpdDownloadFail_Abort ==
  /\ pc = "upd_download"
  /\ tmpDirs' = cleanupTemp(tmpDirs, run.gi)
  /\ pc' = "done"
  /\ run' = [run EXCEPT !.glog = Append(@, [outcome |-> "download failed", detected |-> <<>>]),
                        !.failures = @ \cup {"download failed"},
                        !.status = "error"]
  /\ UNCHANGED <<world, manifest, lockFile, disk, clock>>

\* downloadAndExtract throws: caught, the loop continues with the next group
UpdDownloadFail ==
  /\ pc = "upd_download"
  /\ tmpDirs' = cleanupTemp(tmpDirs, run.gi)
  /\ pc' = "upd_group"
  /\ run' = [run EXCEPT !.glog = Append(@, [outcome |-> "download failed", detected |-> <<>>]),
                        !.failures = @ \cup {"download failed"},
                        !.gi = @ + 1]
  /\ UNCHANGED <<world, manifest, lockFile, disk, clock>>

\* the agents update reinstalls a skill for: those whose lock entry lists it, in the
\* order of the keys of lock.agents, that are declared in the manifest
UpdateAgents(l, ags, skillName) ==
  SelectSeq(AgentKeys(l), LAMBDA id : Includes(AgentSkills(l, id), skillName) /\ Includes(ags, id))

\* lock.skills[skillName].installedAt = now
Touch(l, skillName, now) ==
  [l EXCEPT !.skills = [i \in 1..Len(l.skills) |->
                          IF l.skills[i].name = skillName
                          THEN [l.skills[i] EXCEPT !.installedAt = now]
                          ELSE l.skills[i]]]

\* the detected skill a locked skill is matched with
FindDetected(all, skillName, path) ==
  FindFirst(all, LAMBDA d : d.name = skillName \/ d.relativePath = path)

\* what a group reports when one of its skills is matched with no detected skill
NotFound(names, all, l) ==
  IF \E i \in 1..Len(names) : FindDetected(all, names[i], SkillInfo(l, names[i]).path) = NoMatch
  THEN {"not found in repository"}
  ELSE {}

\* the loop over group.skills dropping from the lock a skill the repository holds no more
RECURSIVE UpdateSkills_Prune(_, _, _, _, _)
UpdateSkills_Prune(st, skills, all, ags, now) ==
  IF skills = <<>> \/ st.failed THEN st
  ELSE LET skillName == Head(skills)
           info == SkillInfo(st.lock, skillName)
           detected == FindDetected(all, skillName, info.path)
           st1 == InstallFor(st, skillName, UpdateAgents(st.lock, ags, skillName))
       IN IF detected = NoMatch
          THEN UpdateSkills_Prune([st EXCEPT !.lock = removeSkillFromLock(@, skillName)],
                                  Tail(skills), all, ags, now)
          ELSE IF st1.failed THEN st1
          ELSE UpdateSkills_Prune([st1 EXCEPT !.lock = Touch(@, skillName, now)],
                                  Tail(skills), all, ags, now)

\* the loop over group.skills; st = [lock, disk, installed, fuel, failed]
RECURSIVE UpdateSkills(_, _, _, _, _)
UpdateSkills(st, skills, all, ags, now) ==
  IF skills = <<>> \/ st.failed THEN st
  ELSE LET skillName == Head(skills)
           info == SkillInfo(st.lock, skillName)
           detected == FindDetected(all, skillName, info.path)
           st1 == InstallFor(st, skillName, UpdateAgents(st.lock, ags, skillName))
       IN IF detected = NoMatch THEN UpdateSkills(st, Tail(skills), all, ags, now)
          ELSE IF st1.failed THEN st1
          ELSE UpdateSkills([st1 EXCEPT !.lock = Touch(@, skillName, now)],
                            Tail(skills), all, ags, now)

\* downloadAndExtract returns; detectSkills, the loop over the group's skills, finally
UpdGroup(tree, fuel) ==
  /\ pc = "upd_download"
  /\ LET det == detectSkills(tree, DirName(run.parsed))
         st == UpdateSkills([lock |-> run.lock, disk |-> disk, installed |-> run.installed,
                             fuel |-> fuel, failed |-> FALSE],
                            run.groups[run.gi].skills, det.skills, run.agents, clock + 1)
     IN IF ~det.ok
        THEN \* detectSkills throws: finally, then the exception leaves the command
             /\ pc' = "done"
             /\ run' = [run EXCEPT !.status = "error",
                          !.failures = @ \cup {"no skills found"},
                          !.glog = Append(@, [outcome |-> "no skills found", detected |-> <<>>])]
             /\ UNCHANGED disk
        ELSE IF st.failed
        THEN \* installSkillForAgent throws: finally, then the exception leaves the command
             /\ pc' = "done"
             /\ run' = [run EXCEPT !.status = "error", !.lock = st.lock,
                          !.installed = st.installed,
                          !.failures = @ \cup {"install failed"},
                          !.glog = Append(@, [outcome |-> "install failed", detected |-> det.skills])]
             /\ disk' = st.disk
        ELSE /\ pc' = "upd_group"
             /\ run' = [run EXCEPT !.lock = st.lock, !.installed = st.installed, !.gi = @ + 1,
                          !.failures = @ \cup NotFound(run.groups[run.gi].skills, det.skills, run.lock),
                          !.glog = Append(@, [outcome |-> "processed", detected |-> det.skills])]
             /\ disk' = st.disk
  /\ tmpDirs' = cleanupTemp(tmpDirs, run.gi)
  /\ UNCHANGED <<world, manifest, lockFile, clock>>

\* after the loop over the groups: saveLock
UpdSave ==
  /\ pc = "upd_group"
  /\ run.gi > Len(run.groups)
  /\ lockFile' = saveLock(run.lock)
  /\ clock' = clock + 1
  /\ pc' = "done"
  /\ run' = [run EXCEPT !.status = "ok", !.saved = @ + 1]
  /\ UNCHANGED <<world, manifest, disk, tmpDirs>>

\* ------------------------------------------------------------------
\* skill sync  (skillSyncCommand)
\* ------------------------------------------------------------------

\* group.skills.get(skillName).push(agent) on the ordered map of one group
PushAgent(skills, skillName, agentId) ==
  IF \E i \in 1..Len(skills) : skills[i].name = skillName
  THEN [i \in 1..Len(skills) |->
          IF skills[i].name = skillName THEN [skills[i] EXCEPT !.agents = Append(@, agentId)]
          ELSE skills[i]]
  ELSE Append(skills, [name |-> skillName, agents |-> <<agentId>>])

\* needsDownload after one iteration of the inner loop (one skill, one agent)
Schedule(acc, info, skillName, agentId) ==
  LET key == GroupKey(info)
  IN IF \E i \in 1..Len(acc) : acc[i].key = key
     THEN [i \in 1..Len(acc) |->
             IF acc[i].key = key
             THEN [acc[i] EXCEPT !.skills = PushAgent(@, skillName, agentId)]
             ELSE acc[i]]
     ELSE Append(acc, [key |-> key, info |-> info,
                       skills |-> <<[name |-> skillName, agents |-> <<agentId>>]>>])

\* step 1 driven by the lock instead of the disk (hasInLock instead of existsOnDisk)
RECURSIVE NeedsDownload_LockDriven(_, _, _, _, _, _)
NeedsDownload_LockDriven(l, d, names, agsAll, ags, acc) ==
  IF names = <<>> THEN acc
  ELSE IF ags = <<>> THEN NeedsDownload_LockDriven(l, d, Tail(names), agsAll, agsAll, acc)
  ELSE NeedsDownload_LockDriven(l, d, names, agsAll, Tail(ags),
         IF Includes(AgentSkills(l, Head(ags)), Head(names)) THEN acc
         ELSE Schedule(acc, SkillInfo(l, Head(names)), Head(names), Head(ags)))

\* step 1: the loops over allNames and agents; the disk decides, not the lock
RECURSIVE NeedsDownload(_, _, _, _, _, _)
NeedsDownload(l, d, names, agsAll, ags, acc) ==
  IF names = <<>> THEN acc
  ELSE IF ags = <<>> THEN NeedsDownload(l, d, Tail(names), agsAll, agsAll, acc)
  ELSE NeedsDownload(l, d, names, agsAll, Tail(ags),
         IF skillExistsForAgent(d, Head(ags), Head(names)) THEN acc
         ELSE Schedule(acc, SkillInfo(l, Head(names)), Head(names), Head(ags)))

\* the pairs <<agent, skill>> the groups schedule
Scheduled(groups) ==
  UNION {UNION {{<<groups[i].skills[j].agents[k], groups[i].skills[j].name>> :
                   k \in 1..Len(groups[i].skills[j].agents)} :
                j \in 1..Len(groups[i].skills)} :
         i \in 1..Len(groups)}

\* manifest, loadLock, step 1
SyncStart ==
  /\ pc = "idle" \/ (pc = "done" /\ run.cmd = "sync")
  /\ LET r0 == Begin("sync")
         r == [r0 EXCEPT !.after =
                 IF pc = "done" /\ run.status = "ok" /\ run.saved = 1
                 THEN [sync |-> TRUE, complete |-> Scheduled(run.groups) \subseteq run.installed,
                       worked |-> run.installed # {} \/ run.cleaned # {}]
                 ELSE NoAfter]
         l == loadLock(lockFile)
         allNames == getAllSkillNames(l)
     IN IF Len(r.agents) = 0
        THEN /\ pc' = "done"
             /\ run' = [r EXCEPT !.status = "exit1", !.failures = {"no agents"}]
        ELSE IF Len(allNames) = 0
        THEN /\ pc' = "done"
             /\ run' = [r EXCEPT !.status = "ok"]
        ELSE /\ pc' = "sync_group"
             /\ run' = [r EXCEPT !.lock = l, !.names = allNames, !.gi = 1,
                          !.groups = NeedsDownload(l, disk, allNames, r.agents, r.agents, <<>>)]
  /\ tmpDirs' = {}
  /\ UNCHANGED <<world, manifest, lockFile, disk, clock>>

\* the next group: parseRemoteSource, then downloadAndExtract creates its temporary directory
SyncDownloadBegin ==
  /\ pc = "sync_group"
  /\ run.gi <= Len(run.groups)
  /\ LET p == parseRemoteSource(LockUri(run.groups[run.gi].info))
     IN IF ~p.ok
        THEN /\ pc' = "sync_group"
             /\ run' = [run EXCEPT !.gi = @ + 1, !.failures = @ \cup {"bad source"},
                          !.glog = Append(@, [outcome |-> "parse failed", detected |-> <<>>])]
             /\ UNCHANGED tmpDirs
        ELSE \E branch \in world.branches :
             /\ pc' = "sync_download"
             /\ run' = [run EXCEPT !.parsed = [p EXCEPT !.ref = IF p.ref = "" THEN branch ELSE p.ref]]
             /\ tmpDirs' = tmpDirs \cup {run.gi}
  /\ UNCHANGED <<world, manifest, lockFile, disk, clock>>

\* downloadAndExtract throws: caught, the loop continues with the next group
SyncDownloadFail ==
  /\ pc = "sync_download"
  /\ tmpDirs' = cleanupTemp(tmpDirs, run.gi)
  /\ pc' = "sync_group"
  /\ run' = [run EXCEPT !.glog = Append(@, [outcome |-> "download failed", detected |-> <<>>]),
                        !.failures = @ \cup {"download failed"},
                        !.gi = @ + 1]
  /\ UNCHANGED <<world, manifest, lockFile, disk, clock>>

\* the loop over group.skills; st = [disk, installed, fuel, failed]
RECURSIVE SyncSkills(_, _, _, _)
SyncSkills(st, skills, all, l) ==
  IF skills = <<>> \/ st.failed THEN st
  ELSE LET skillName == Head(skills).name
           detected == FindDetected(all, skillName, SkillInfo(l, skillName).path)
       IN IF detected = NoMatch THEN SyncSkills(st, Tail(skills), all, l)
          ELSE SyncSkills(InstallFor(st, skillName, Head(skills).agents), Tail(skills), all, l)

\* downloadAndExtract returns; detectSkills, the loop over the group's skills, finally
SyncGroup(tree, fuel) ==
  /\ pc = "sync_download"
  /\ LET det == detectSkills(tree, DirName(run.parsed))
         st == SyncSkills([disk |-> disk, installed |-> run.installed,
                           fuel |-> fuel, failed |-> FALSE],
                          run.groups[run.gi].skills, det.skills, run.lock)
     IN IF ~det.ok
        THEN /\ pc' = "done"
             /\ run' = [run EXCEPT !.status = "error",
                          !.failures = @ \cup {"no skills found"},
                          !.glog = Append(@, [outcome |-> "no skills found", detected |-> <<>>])]
             /\ UNCHANGED disk
        ELSE IF st.failed
        THEN /\ pc' = "done"
             /\ run' = [run EXCEPT !.status = "error", !.installed = st.installed,
                          !.failures = @ \cup {"install failed"},
                          !.glog = Append(@, [outcome |-> "install failed", detected |-> det.skills])]
             /\ disk' = st.disk
        ELSE /\ pc' = "sync_group"
             /\ run' = [run EXCEPT !.installed = st.installed, !.gi = @ + 1,
                          !.failures = @ \cup
                            NotFound([j \in 1..Len(run.groups[run.gi].skills) |->
                                        run.groups[run.gi].skills[j].name],
                                     det.skills, run.lock),
                          !.glog = Append(@, [outcome |-> "processed", detected |-> det.skills])]
             /\ disk' = st.disk
  /\ tmpDirs' = cleanupTemp(tmpDirs, run.gi)
  /\ UNCHANGED <<world, manifest, lockFile, clock>>

\* step 3 pushing every skill name without the includes test
EnsureAllSkills_PushAlways(agents, id, allNames) ==
  IF ~\E i \in 1..Len(agents) : agents[i].id = id
  THEN SetAgent(agents, id, allNames)
  ELSE SetAgent(agents, id,
         agents[CHOOSE i \in 1..Len(agents) : agents[i].id = id].skills \o allNames)

\* the body of the loop of step 3 for one declared agent
EnsureAllSkills(agents, id, allNames) ==
  IF ~\E i \in 1..Len(agents) : agents[i].id = id
  THEN SetAgent(agents, id, allNames)
  ELSE AddAllSkills(agents, id, allNames)

\* step 3: every declared agent lists all the skills of the lock
RECURSIVE SyncLockAgents(_, _, _)
SyncLockAgents(agents, ags, allNames) ==
  IF ags = <<>> THEN agents
  ELSE SyncLockAgents(EnsureAllSkills(agents, Head(ags), allNames), Tail(ags), allNames)

\* step 4 left out
DropUndeclared_Keep(agents, lockAgentIds, currentAgentIds) == agents

\* step 4: the entries of lockAgentIds that are not declared any more are deleted
DropUndeclared(agents, lockAgentIds, currentAgentIds) ==
  SelectSeq(agents, LAMBDA a : ~(a.id \in lockAgentIds /\ a.id \notin currentAgentIds))

\* steps 3 and 4, saveLock
SyncFinish ==
  /\ pc = "sync_group"
  /\ run.gi > Len(run.groups)
  /\ LET lockAgentIds == AgentKeySet(run.lock)
         currentAgentIds == Range(run.agents)
         a3 == SyncLockAgents(run.lock.agents, run.agents, run.names)
         a4 == DropUndeclared(a3, lockAgentIds, currentAgentIds)
         l == [run.lock EXCEPT !.agents = a4]
     IN /\ lockFile' = saveLock(l)
        /\ run' = [run EXCEPT !.lock = l, !.status = "ok", !.saved = @ + 1,
                              !.cleaned = lockAgentIds \ currentAgentIds]
  /\ pc' = "done"
  /\ UNCHANGED <<world, manifest, disk, clock, tmpDirs>>

\* the largest number of installSkillForAgent calls one step can make
MaxInstalls == Cardinality(SkillNames) * Cardinality(AgentIds)

Next ==
  \/ \E m \in world.manifests : ManifestChange(m)
  \/ \E a \in AgentIds, s \in SkillNames : ExternalDelete(a, s)
  \/ Return
  \/ \E uri \in world.uris : AddStart(uri)
  \/ AddDownloadFail
  \/ \E tree \in world.trees : AddDetect(tree)
  \/ \E fuel \in 0..MaxInstalls : AddInstall(fuel)
  \/ AddSave
  \/ \E name \in SkillNames \cup {None} : skillRemoveCommand(name)
  \/ \E name \in SkillNames \cup {None} : UpdateStart(name)
  \/ UpdDownloadBegin
  \/ UpdDownloadFail
  \/ \E tree \in world.trees, fuel \in 0..MaxInstalls : UpdGroup(tree, fuel)
  \/ UpdSave
  \/ SyncStart
  \/ SyncDownloadBegin
  \/ SyncDownloadFail
  \/ \E tree \in world.trees, fuel \in 0..MaxInstalls : SyncGroup(tree, fuel)
  \/ SyncFinish

Spec == Init /\ [][Next]_vars

InitGroups == InitWith(GroupsWorld)

SpecGroups == InitGroups /\ [][Next]_vars

InitRename == InitWith(RenameWorld)

SpecRename == InitRename /\ [][Next]_vars

\* ------------------------------------------------------------------
\* lib/lock.js on its own: addSkillToLock followed by removeSkillFromLock
\* ------------------------------------------------------------------

\* skill names of the lock records of this specification
LockNames == {"writer", "reviewer", "editor"}

\* a skills entry as add writes it
LockEntry(name) ==
  [name |-> name, source |-> <<"github:", "acme", "/", "pack">>, sourceType |-> "github",
   ref |-> "main", path |-> name, installedAt |-> 0]

\* the lock records a lock file can hold: skills in any key order, agents in any
\* key order, each agent listing some of the skills (possibly none) in any order
LockRecords ==
  UNION {
    UNION {
      { [version |-> 1,
         skills |-> [i \in 1..Len(ks) |-> LockEntry(ks[i])],
         agents |-> [i \in 1..Len(as) |-> [id |-> as[i], skills |-> f[as[i]]]]]
        : f \in [Range(as) -> Perms(Range(ks))] }
      : as \in Perms(AgentIds) }
    : ks \in Perms(LockNames) }

InitLock ==
  /\ world = MainWorld
  /\ manifest = <<>>
  /\ lockFile \in LockRecords
  /\ disk = {}
  /\ clock = 0
  /\ tmpDirs = {}
  /\ pc = "idle"
  /\ run = NoRun

\* addSkillToLock(lock, skillName, info, agentIds) on the loaded record
LockAdd(skillName, agentIds) ==
  /\ pc = "idle"
  /\ pc' = "lock_added"
  /\ run' = [NoRun EXCEPT !.cmd = "lock", !.startLock = lockFile, !.names = <<skillName>>,
                         !.agents = agentIds,
                         !.lock = addSkillToLock(loadLock(lockFile), skillName,
                                                 LockEntry(skillName), agentIds, clock + 1)]
  /\ UNCHANGED <<world, manifest, lockFile, disk, clock, tmpDirs>>

\* removeSkillFromLock(lock, skillName) on the record addSkillToLock has changed
LockRemove ==
  /\ pc = "lock_added"
  /\ pc' = "lock_removed"
  /\ run' = [run EXCEPT !.lock = removeSkillFromLock(@, run.names[1])]
  /\ UNCHANGED <<world, manifest, lockFile, disk, clock, tmpDirs>>

NextLock ==
  \/ \E skillName \in LockNames, agentIds \in Perms(AgentIds) : LockAdd(skillName, agentIds)
  \/ LockRemove

SpecLock == InitLock /\ [][NextLock]_vars

\* ------------------------------------------------------------------
\* lib/remote-skill.js on its own: detectSkills on an extracted repository
\* ------------------------------------------------------------------

\* the name in the frontmatter of <dir>/SKILL.md ("" when it gives none)
FrontName(dir) == IF dir = "writer" THEN "pro-writer" ELSE ""

\* the listings of a directory whose subdirectories are among dirs: in any order,
\* each subdirectory with or without a SKILL.md
ChildLists(dirs) ==
  UNION { { [i \in 1..Len(ds) |->
               [dir |-> ds[i], hasMd |-> f[ds[i]],
                name |-> IF f[ds[i]] THEN FrontName(ds[i]) ELSE ""]]
            : f \in [Range(ds) -> BOOLEAN] }
          : ds \in Perms(dirs) }

\* SKILL.md at the root: absent, without a name, with a name
Roots == {[md |-> FALSE, name |-> ""], [md |-> TRUE, name |-> ""], [md |-> TRUE, name |-> "writer"]}

\* the extracted repositories: without and with a skills/ directory (which is
\* itself a first-level directory and may hold a SKILL.md of its own)
DetectTrees ==
  {Tree(r.md, r.name, FALSE, <<>>, top) :
     r \in Roots, top \in ChildLists({"writer", ".github"})}
  \cup
  {Tree(r.md, r.name, TRUE, sk, top) :
     r \in Roots, sk \in ChildLists({"writer", "reviewer", "_drafts"}),
     top \in ChildLists({"writer", "skills", ".github"})}

\* basename(repoDir) of the extracted repository
DetectDirName == "pack-main"

InitDetect ==
  /\ \E tree \in DetectTrees : world = [MainWorld EXCEPT !.trees = {tree}]
  /\ manifest = <<>>
  /\ lockFile = NoFile
  /\ disk = {}
  /\ clock = 0
  /\ tmpDirs = {}
  /\ pc = "idle"
  /\ run = NoRun

\* detectSkills(repoDir) returns the list of skills, or throws
Detect(tree) ==
  /\ pc = "idle"
  /\ pc' = "detected"
  /\ LET det == detectSkills(tree, DetectDirName)
     IN run' = [NoRun EXCEPT !.cmd = "detect", !.status = IF det.ok THEN "ok" ELSE "error",
                             !.allDetected = det.skills]
  /\ UNCHANGED <<world, manifest, lockFile, disk, clock, tmpDirs>>

NextDetect == \E tree \in world.trees : Detect(tree)

SpecDetect == InitDetect /\ [][NextDetect]_vars

\* ------------------------------------------------------------------
\* lib/remote-skill.js on its own: extractTar on a tar buffer
\*
\* A buffer is a sequence of 512-byte blocks and a length in bytes (a
\* truncated buffer ends inside a block or lacks blocks). A name is the
\* sequence of its segments between "/" ("a/" is <<"a", "">>, the empty
\* string is <<>>). The extraction root is the variable disk: the set of
\* the directories and files extractTar has created.
\* ------------------------------------------------------------------

\* the size of a tar block, in bytes
BlockSize == 512

\* Math.floor in the place of Math.ceil
PaddedSize_Floor(n) == (n \div BlockSize) * BlockSize

\* Math.ceil(n / 512) * 512
PaddedSize(n) == (-((-n) \div BlockSize)) * BlockSize

NoName == <<>>

ZeroBlock ==
  [kind |-> "zero", name |-> NoName, prefix |-> NoName, size |-> 0, sizeOk |-> TRUE,
   typeFlag |-> "NUL", pax |-> NoName, entry |-> 0]

\* the header block of entry number i
HeaderBlock(e, i) ==
  [kind |-> "header", name |-> e.name, prefix |-> e.prefix, size |-> e.size, sizeOk |-> e.sizeOk,
   typeFlag |-> e.typeFlag, pax |-> NoName, entry |-> i]

\* a data block of entry number i; the data of an extended header holds its
\* records, among them possibly a path record
DataBlock(e, i) ==
  [kind |-> "data", name |-> NoName, prefix |-> NoName, size |-> 0, sizeOk |-> TRUE,
   typeFlag |-> "NUL", pax |-> e.pax, entry |-> i]

\* the entries an archive is made of, by their place i in the archive
EntryKinds(i) ==
  { \* a regular file of two data blocks
    [typeFlag |-> "0", name |-> <<"pack-main", "file" \o ToString(i)>>,
     size |-> 700, sizeOk |-> TRUE, blocks |-> 2, pax |-> NoName, prefix |-> NoName],
    \* a regular file whose size field is not an octal number
    [typeFlag |-> "0", name |-> <<"pack-main", "file" \o ToString(i)>>,
     size |-> 0, sizeOk |-> FALSE, blocks |-> 2, pax |-> NoName, prefix |-> NoName],
    \* a directory
    [typeFlag |-> "5", name |-> <<"pack-main", "dir" \o ToString(i), "">>,
     size |-> 0, sizeOk |-> TRUE, blocks |-> 0, pax |-> NoName, prefix |-> NoName],
    \* a PAX extended header with a path record
    [typeFlag |-> "x", name |-> <<"PaxHeader", "file" \o ToString(i)>>,
     size |-> 40, sizeOk |-> TRUE, blocks |-> 1, pax |-> <<"pack-main", "long" \o ToString(i)>>, prefix |-> NoName],
    \* a PAX extended header without a path record
    [typeFlag |-> "x", name |-> <<"PaxHeader", "file" \o ToString(i)>>,
     size |-> 30, sizeOk |-> TRUE, blocks |-> 1, pax |-> NoName, prefix |-> NoName],
    \* a PAX global header (the commit id of the archive)
    [typeFlag |-> "g", name |-> <<"pax_global_header">>,
     size |-> 52, sizeOk |-> TRUE, blocks |-> 1, pax |-> NoName, prefix |-> NoName] }

\* the entries of the types extractTar skips, by their place i in the archive
LinkKinds(i) ==
  { \* a symbolic link: no data
    [typeFlag |-> "2", name |-> <<"pack-main", "link" \o ToString(i)>>,
     size |-> 0, sizeOk |-> TRUE, blocks |-> 0, pax |-> NoName, prefix |-> NoName],
    \* a hard link that carries the data of the file, two data blocks
    [typeFlag |-> "1", name |-> <<"pack-main", "link" \o ToString(i)>>,
     size |-> 700, sizeOk |-> TRUE, blocks |-> 2, pax |-> NoName, prefix |-> NoName] }

\* the entries of an archive with links: files, directories, extended headers
\* with a path record, links
SkipEntryKinds(i) ==
  {e \in EntryKinds(i) : e.typeFlag \in {"0", "5"} \/ e.pax # NoName} \cup LinkKinds(i)

\* the entries whose names point at places of all kinds, by their place i in
\* the archive: every file has 100 bytes in one data block
NameKinds(i) ==
  { \* a file under the repository directory
    [typeFlag |-> "0", name |-> <<"pack-main", "file" \o ToString(i)>>,
     size |-> 100, sizeOk |-> TRUE, blocks |-> 1, pax |-> NoName, prefix |-> NoName],
    \* a file named ../evil<i>
    [typeFlag |-> "0", name |-> <<"..", "evil" \o ToString(i)>>,
     size |-> 100, sizeOk |-> TRUE, blocks |-> 1, pax |-> NoName, prefix |-> NoName],
    \* a file named /abs<i>
    [typeFlag |-> "0", name |-> <<"", "abs" \o ToString(i)>>,
     size |-> 100, sizeOk |-> TRUE, blocks |-> 1, pax |-> NoName, prefix |-> NoName],
    \* a file named pack-main/../in<i>
    [typeFlag |-> "0", name |-> <<"pack-main", "..", "in" \o ToString(i)>>,
     size |-> 100, sizeOk |-> TRUE, blocks |-> 1, pax |-> NoName, prefix |-> NoName],
    \* a directory up<i>/ with the prefix ../..
    [typeFlag |-> "5", name |-> <<"up" \o ToString(i), "">>,
     size |-> 0, sizeOk |-> TRUE, blocks |-> 0, pax |-> NoName, prefix |-> <<"..", "..">>],
    \* a PAX extended header with the path record pack-main/../../pax<i>
    [typeFlag |-> "x", name |-> <<"PaxHeader", "file" \o ToString(i)>>,
     size |-> 40, sizeOk |-> TRUE, blocks |-> 1,
     pax |-> <<"pack-main", "..", "..", "pax" \o ToString(i)>>, prefix |-> NoName] }

\* the archives of n entries
RECURSIVE ArchivesOfLen(_)
ArchivesOfLen(n) ==
  IF n = 0 THEN {<<>>}
  ELSE {Append(es, e) : es \in ArchivesOfLen(n - 1), e \in EntryKinds(n)}

\* the archives: up to MaxEntries entries
Archives == UNION {ArchivesOfLen(n) : n \in 0..MaxEntries}

\* the archives with links of n entries
RECURSIVE SkipArchivesOfLen(_)
SkipArchivesOfLen(n) ==
  IF n = 0 THEN {<<>>}
  ELSE {Append(es, e) : es \in SkipArchivesOfLen(n - 1), e \in SkipEntryKinds(n)}

\* the archives with links: up to MaxEntries entries
SkipArchives == UNION {SkipArchivesOfLen(n) : n \in 0..MaxEntries}

\* the blocks of the entries from number i on, followed by the end-of-archive marker
RECURSIVE TarBlocks(_, _)
TarBlocks(es, i) ==
  IF i > Len(es) THEN <<ZeroBlock, ZeroBlock>>
  ELSE <<HeaderBlock(es[i], i)>>
       \o [k \in 1..es[i].blocks |-> DataBlock(es[i], i)]
       \o TarBlocks(es, i + 1)

\* the lengths a buffer of n blocks is cut to: at and inside every block
CutLengths(n) ==
  {k * BlockSize : k \in 0..n} \cup {k * BlockSize + 100 : k \in 0..(n - 1)}

\* the buffers extractTar is called on
TarWorlds ==
  UNION { { [entries |-> es, blocks |-> TarBlocks(es, 1), length |-> len]
            : len \in CutLengths(Len(TarBlocks(es, 1))) }
          : es \in Archives }

\* the files whose size field holds values of all kinds, by their place i in
\* the archive: 100 bytes in one data block, 0, -5 ("-5"), -512 ("-1000"),
\* -1024 ("-2000"), not an octal number; only the first has a data block
SizeKinds(i) ==
  {[typeFlag |-> "0", name |-> <<"pack-main", "file" \o ToString(i)>>,
    size |-> 100, sizeOk |-> TRUE, blocks |-> 1, pax |-> NoName, prefix |-> NoName]}
    \cup {[typeFlag |-> "0", name |-> <<"pack-main", "file" \o ToString(i)>>,
            size |-> n, sizeOk |-> TRUE, blocks |-> 0, pax |-> NoName, prefix |-> NoName]
           : n \in {0, -5, -BlockSize, -2 * BlockSize}}
    \cup {[typeFlag |-> "0", name |-> <<"pack-main", "file" \o ToString(i)>>,
            size |-> 0, sizeOk |-> FALSE, blocks |-> 0, pax |-> NoName, prefix |-> NoName]}

\* the archives of n files with size fields of all kinds
RECURSIVE SizeArchivesOfLen(_)
SizeArchivesOfLen(n) ==
  IF n = 0 THEN {<<>>}
  ELSE {Append(es, e) : es \in SizeArchivesOfLen(n - 1), e \in SizeKinds(n)}

\* the whole buffers of the archives of up to MaxEntries files with size
\* fields of all kinds
SizeTarWorlds ==
  { [entries |-> es, blocks |-> TarBlocks(es, 1), length |-> BlockSize * Len(TarBlocks(es, 1))]
    : es \in UNION {SizeArchivesOfLen(n) : n \in 0..MaxEntries} }

\* the archives of n entries with names of all kinds
RECURSIVE NameArchivesOfLen(_)
NameArchivesOfLen(n) ==
  IF n = 0 THEN {<<>>}
  ELSE {Append(es, e) : es \in NameArchivesOfLen(n - 1), e \in NameKinds(n)}

\* the whole buffers of the archives of up to MaxEntries entries with names
\* of all kinds
NameTarWorlds ==
  { [entries |-> es, blocks |-> TarBlocks(es, 1), length |-> BlockSize * Len(TarBlocks(es, 1))]
    : es \in UNION {NameArchivesOfLen(n) : n \in 0..MaxEntries} }

\* the buffers of the archives with links
SkipTarWorlds ==
  UNION { { [entries |-> es, blocks |-> TarBlocks(es, 1), length |-> len]
            : len \in CutLengths(Len(TarBlocks(es, 1))) }
          : es \in SkipArchives }

\* the locals of extractTar before the loop
TarRun ==
  [cmd |-> "extractTar", status |-> "running", offset |-> 0, nan |-> FALSE,
   paxPath |-> NoName, written |-> <<>>, steps |-> 0]

InitTar ==
  /\ world \in TarWorlds
  /\ manifest = <<>>
  /\ lockFile = NoFile
  /\ disk = {}
  /\ clock = 0
  /\ tmpDirs = {}
  /\ pc = "tar_loop"
  /\ run = TarRun

\* destDir, the temporary directory, as the segments of an absolute path
DestDir == <<"tmp", "aif-remote-skill-1">>

\* path.normalize on the segments of an absolute path: "" and "." are
\* dropped, ".." removes the segment before it and is dropped at the root
RECURSIVE NormalizeSegments(_, _)
NormalizeSegments(done, segs) ==
  IF segs = <<>> THEN done
  ELSE IF Head(segs) \in {"", "."} THEN NormalizeSegments(done, Tail(segs))
  ELSE IF Head(segs) = ".."
  THEN NormalizeSegments(IF done = <<>> THEN done ELSE SubSeq(done, 1, Len(done) - 1),
                         Tail(segs))
  ELSE NormalizeSegments(Append(done, Head(segs)), Tail(segs))

\* path.join(destDir, entryName)
PathJoin(dir, name) == NormalizeSegments(<<>>, dir \o name)

\* an index of subarray: a negative one counts from the end of the buffer, and
\* every index is brought into 0..length
ClampIndex(w, i) ==
  IF i < 0 THEN (IF w.length + i < 0 THEN 0 ELSE w.length + i)
  ELSE IF i > w.length THEN w.length ELSE i

\* tar.subarray(offset, offset + 512), for an offset that is a multiple of 512
\* (and, when negative, a buffer of whole blocks): an empty subarray passes
\* the test header.every(b => b === 0), as a zero block does
HeaderAt(w, offset) ==
  LET lo == ClampIndex(w, offset)
      hi == ClampIndex(w, offset + BlockSize)
  IN IF hi <= lo THEN ZeroBlock ELSE w.blocks[(lo \div BlockSize) + 1]

\* the number of bytes of tar.subarray(from, to)
SubarrayLength(w, from, to) ==
  LET lo == ClampIndex(w, from)
      hi == ClampIndex(w, to)
  IN IF hi > lo THEN hi - lo ELSE 0

\* the iterations followed: one more than the blocks of the buffer
MaxSteps == Len(world.blocks) + 1

\* the loop goes on: offset + 512 <= tar.length and the header block is not all zero
TarContinues ==
  /\ ~run.nan
  /\ run.offset + BlockSize <= world.length
  /\ HeaderAt(world, run.offset).kind # "zero"

EndsWithSlash(name) == Len(name) >= 2 /\ name[Len(name)] = ""

\* one iteration of the loop of extractTar
TarStep ==
  /\ pc = "tar_loop"
  /\ TarContinues
  /\ run.steps < MaxSteps
  /\ LET header == HeaderAt(world, run.offset)
         fileSize == header.size
         entryName == IF run.paxPath # NoName THEN run.paxPath
                      ELSE IF header.prefix # NoName THEN header.prefix \o header.name
                      ELSE header.name
         dataAt == run.offset + BlockSize
         \* parseInt gave NaN: subarray(offset, NaN) is empty
         dataLen == IF header.sizeOk THEN SubarrayLength(world, dataAt, dataAt + fileSize) ELSE 0
         \* the path record is matched when the data read holds it
         pathMatch == IF dataLen = fileSize /\ dataLen > 0
                      THEN HeaderAt(world, dataAt).pax ELSE NoName
         next == [run EXCEPT !.paxPath = NoName,
                             !.steps = @ + 1,
                             !.nan = ~header.sizeOk,
                             !.offset = IF header.sizeOk THEN dataAt + PaddedSize(fileSize) ELSE 0]
     IN IF header.typeFlag \in {"x", "g"}
        THEN /\ run' = [next EXCEPT !.paxPath = pathMatch]
             /\ UNCHANGED disk
        ELSE IF header.typeFlag = "5" \/ EndsWithSlash(entryName)
        THEN /\ run' = [next EXCEPT !.written =
                           Append(@, [type |-> "dir", path |-> entryName, length |-> 0,
                                      at |-> run.offset])]
             /\ disk' = disk \cup {[type |-> "dir", path |-> PathJoin(DestDir, entryName)]}
        ELSE IF header.typeFlag \in {"0", "NUL"}
        THEN /\ run' = [next EXCEPT !.written =
                           Append(@, [type |-> "file", path |-> entryName, length |-> dataLen,
                                      at |-> run.offset])]
             /\ disk' = disk \cup {[type |-> "file", path |-> PathJoin(DestDir, entryName)]}
        ELSE /\ run' = next
             /\ UNCHANGED disk
  /\ UNCHANGED <<world, manifest, lockFile, clock, tmpDirs, pc>>

\* the loop ends and extractTar returns
TarReturn ==
  /\ pc = "tar_loop"
  /\ ~TarContinues
  /\ pc' = "tar_done"
  /\ run' = [run EXCEPT !.status = "ok"]
  /\ UNCHANGED <<world, manifest, lockFile, disk, clock, tmpDirs>>

NextTar == TarStep \/ TarReturn

SpecTar == InitTar /\ [][NextTar]_vars

InitTarSkip ==
  /\ world \in SkipTarWorlds
  /\ manifest = <<>>
  /\ lockFile = NoFile
  /\ disk = {}
  /\ clock = 0
  /\ tmpDirs = {}
  /\ pc = "tar_loop"
  /\ run = TarRun

SpecTarSkip == InitTarSkip /\ [][NextTar]_vars

InitTarNames ==
  /\ world \in NameTarWorlds
  /\ manifest = <<>>
  /\ lockFile = NoFile
  /\ disk = {}
  /\ clock = 0
  /\ tmpDirs = {}
  /\ pc = "tar_loop"
  /\ run = TarRun

SpecTarNames == InitTarNames /\ [][NextTar]_vars

InitTarSizes ==
  /\ world \in SizeTarWorlds
  /\ manifest = <<>>
  /\ lockFile = NoFile
  /\ disk = {}
  /\ clock = 0
  /\ tmpDirs = {}
  /\ pc = "tar_loop"
  /\ run = TarRun

SpecTarSizes == InitTarSizes /\ [][NextTar]_vars

\* ------------------------------------------------------------------
\* lib/remote-skill.js on its own: parseRemoteSource and formatSourceUri
\*
\* Here the fields of a RemoteSource are kept as token sequences, so that
\* the string formatSourceUri builds can be parsed again: a string is the
\* sequence of its delimiters and of its maximal delimiter-free pieces.
\* ------------------------------------------------------------------

Delims == {"github:", "/", "#"}

\* the tokens of the concatenation of strings given by their tokens: adjacent
\* delimiter-free pieces are one piece
RECURSIVE Normalize(_)
Normalize(toks) ==
  IF Len(toks) < 2 THEN toks
  ELSE IF toks[1] \notin Delims /\ toks[2] \notin Delims
  THEN Normalize(<<toks[1] \o toks[2]>> \o SubSeq(toks, 3, Len(toks)))
  ELSE <<toks[1]>> \o Normalize(Tail(toks))

\* String.prototype.split('/') keeping each part as tokens
RECURSIVE SplitSlashTokens(_, _, _)
SplitSlashTokens(tokens, cur, acc) ==
  IF tokens = <<>> THEN Append(acc, cur)
  ELSE IF Head(tokens) = "/" THEN SplitSlashTokens(Tail(tokens), <<>>, Append(acc, cur))
  ELSE SplitSlashTokens(Tail(tokens), Append(cur, Head(tokens)), acc)

\* Array.prototype.join('/') on parts kept as tokens
RECURSIVE JoinTokens(_)
JoinTokens(parts) ==
  IF parts = <<>> THEN <<>>
  ELSE IF Len(parts) = 1 THEN parts[1]
  ELSE parts[1] \o <<"/">> \o JoinTokens(Tail(parts))

ParseErrorTokens ==
  [ok |-> FALSE, owner |-> <<>>, repo |-> <<>>, hasPath |-> FALSE, skillPath |-> <<>>, ref |-> <<>>]

\* parseRemoteSource with the fields as tokens; hasPath: skillPath is not undefined
parseRemoteSourceTokens(uri) ==
  IF uri = <<>> \/ Head(uri) # "github:" THEN ParseErrorTokens
  ELSE
    LET body0   == Tail(uri)
        hashIdx == IndexOf(body0, "#")
        ref     == IF hashIdx # 0 THEN SubSeq(body0, hashIdx + 1, Len(body0)) ELSE <<>>
        body    == IF hashIdx # 0 THEN SubSeq(body0, 1, hashIdx - 1) ELSE body0
        parts   == SplitSlashTokens(body, <<>>, <<>>)
    IN IF Len(parts) < 2 THEN ParseErrorTokens
       ELSE [ok |-> TRUE, owner |-> parts[1], repo |-> parts[2],
             hasPath |-> Len(parts) > 2,
             skillPath |-> IF Len(parts) > 2 THEN JoinTokens(SubSeq(parts, 3, Len(parts))) ELSE <<>>,
             ref |-> ref]

\* formatSourceUri that leaves the skill path out
formatSourceUri_NoPath(source) ==
  Normalize(<<"github:">> \o source.owner \o <<"/">> \o source.repo
            \o (IF source.ref # <<>> /\ source.ref # <<"main">>
                THEN <<"#">> \o source.ref ELSE <<>>))

formatSourceUri(source) ==
  Normalize(<<"github:">> \o source.owner \o <<"/">> \o source.repo
            \o (IF source.hasPath /\ source.skillPath # <<>>
                THEN <<"/">> \o source.skillPath ELSE <<>>)
            \o (IF source.ref # <<>> /\ source.ref # <<"main">>
                THEN <<"#">> \o source.ref ELSE <<>>))

\* the tokens a ref is written with
RefTokens == {"main", "dev", "/", "#"}

\* strings of up to n tokens over the alphabet toks
TokenStrings(toks, n) ==
  {t \in UNION {[1..k -> toks] : k \in 0..n} : Normalize(t) = t}

\* the skill paths: one segment, two segments
SkillPaths == {<<"writer">>, <<"skills", "/", "writer">>}

\* the valid shorthand references github:o/r[/p][#ref]
ShorthandUris ==
  {<<"github:", "acme", "/", "pack">> \o path \o hash :
     path \in {<<>>} \cup {<<"/">> \o sp : sp \in SkillPaths},
     hash \in {<<>>} \cup {<<"#">> \o ref : ref \in TokenStrings(RefTokens, MaxRefLen)}}

\* the locals of a round trip
ParseRun ==
  [cmd |-> "parse", status |-> "running", source |-> <<>>, parsed |-> ParseErrorTokens,
   formatted |-> <<>>, reparsed |-> ParseErrorTokens]

InitParse ==
  /\ \E uri \in ShorthandUris : world = [MainWorld EXCEPT !.uris = {uri}]
  /\ manifest = <<>>
  /\ lockFile = NoFile
  /\ disk = {}
  /\ clock = 0
  /\ tmpDirs = {}
  /\ pc = "idle"
  /\ run = ParseRun

\* parseRemoteSource(uri)
Parse(uri) ==
  /\ pc = "idle"
  /\ LET parsed == parseRemoteSourceTokens(uri)
     IN /\ run' = [run EXCEPT !.source = uri, !.parsed = parsed,
                              !.status = IF parsed.ok THEN "running" ELSE "error"]
        /\ pc' = IF parsed.ok THEN "parsed" ELSE "done"
  /\ UNCHANGED <<world, manifest, lockFile, disk, clock, tmpDirs>>

\* formatSourceUri(source)
Format ==
  /\ pc = "parsed"
  /\ run' = [run EXCEPT !.formatted = formatSourceUri(run.parsed)]
  /\ pc' = "formatted"
  /\ UNCHANGED <<world, manifest, lockFile, disk, clock, tmpDirs>>

\* parseRemoteSource of the formatted string
Reparse ==
  /\ pc = "formatted"
  /\ LET parsed == parseRemoteSourceTokens(run.formatted)
     IN run' = [run EXCEPT !.reparsed = parsed,
                           !.status = IF parsed.ok THEN "ok" ELSE "error"]
  /\ pc' = "reparsed"
  /\ UNCHANGED <<world, manifest, lockFile, disk, clock, tmpDirs>>

NextParse ==
  \/ \E uri \in world.uris : Parse(uri)
  \/ Format
  \/ Reparse

SpecParse == InitParse /\ [][NextParse]_vars

\* references that lack a part: no repo, an empty owner, an empty repo, no
\* body, an empty skill path, a skill path with a leading slash, no scheme
MalformedBodies ==
  {<<"acme">>, <<"/", "pack">>, <<"acme", "/">>, <<>>,
   <<"acme", "/", "pack", "/">>, <<"acme", "/", "pack", "/", "/", "writer">>}

MalformedUris ==
  {<<"github:">> \o body \o hash :
     body \in MalformedBodies, hash \in {<<>>, <<"#", "dev">>}}
    \cup {<<"acme", "/", "pack">>}

InitParseAny ==
  /\ \E uri \in ShorthandUris \cup MalformedUris : world = [MainWorld EXCEPT !.uris = {uri}]
  /\ manifest = <<>>
  /\ lockFile = NoFile
  /\ disk = {}
  /\ clock = 0
  /\ tmpDirs = {}
  /\ pc = "idle"
  /\ run = ParseRun

SpecParseAny == InitParseAny /\ [][NextParse]_vars

\* ------------------------------------------------------------------
\* lib/remote-skill.js on its own: downloadAndExtract
\*
\* world holds the source given and what the network answers; messages
\* and URLs are strings.
\* ------------------------------------------------------------------

\* String.prototype.includes
StrIncludes(s, sub) ==
  \E i \in 1..(Len(s) - Len(sub) + 1) : SubSeq(s, i, i + Len(sub) - 1) = sub

\* the answers of the repository metadata endpoint
ApiOutcomes ==
  {[kind |-> "response", ok |-> TRUE, default_branch |-> "trunk"],
   [kind |-> "response", ok |-> TRUE, default_branch |-> ""],
   [kind |-> "response", ok |-> FALSE, default_branch |-> ""],
   [kind |-> "throw", ok |-> FALSE, default_branch |-> ""]}

\* the answers of the archive request: a response with a status and a body,
\* or a rejected fetch
ArchiveOutcomes ==
  {[kind |-> "response", status |-> 200, body |-> b, message |-> ""] :
     b \in {"archive", "not gzip", "no repo dir"}}
    \cup {[kind |-> "response", status |-> st, body |-> "", message |-> ""] :
            st \in {403, 404, 500}}
    \cup {[kind |-> "throw", status |-> 0, body |-> "", message |-> m] :
            m \in {"fetch failed", "This operation was aborted"}}

\* Response.ok
ResponseOk(res) == res.status >= 200 /\ res.status <= 299

DownloadSources ==
  {[owner |-> "acme", repo |-> r, ref |-> ref] : r \in {"pack", "tools"}, ref \in {"", "dev"}}

\* resolveDefaultBranch
resolveDefaultBranch(api) ==
  IF api.kind = "response" /\ api.ok /\ api.default_branch # ""
  THEN api.default_branch
  ELSE "main"

ArchiveUrl(source) ==
  "https://github.com/" \o source.owner \o "/" \o source.repo
    \o "/archive/refs/heads/" \o source.ref \o ".tar.gz"

\* the error thrown for a response that is not ok
HttpErrorMessage(res, archiveUrl) ==
  "HTTP " \o ToString(res.status) \o " from " \o archiveUrl

\* the catch of downloadAndExtract: the message of the error it throws
CatchMessage(msg, source) ==
  IF StrIncludes(msg, "HTTP") \/ StrIncludes(msg, "fetch") \/ StrIncludes(msg, "404")
  THEN "Failed to download from " \o ArchiveUrl(source) \o ". "
         \o "Check that the repository \"" \o source.owner \o "/" \o source.repo
         \o "\" exists and branch \"" \o source.ref \o "\" is correct."
  ELSE msg

DownloadRun ==
  [cmd |-> "download", status |-> "running", source |-> [owner |-> "", repo |-> "", ref |-> ""],
   archiveUrl |-> "", message |-> "", result |-> ""]

InitDownload ==
  /\ \E source \in DownloadSources, api \in ApiOutcomes, archive \in ArchiveOutcomes :
       world = [source |-> source, api |-> api, archive |-> archive]
  /\ manifest = <<>>
  /\ lockFile = NoFile
  /\ disk = {}
  /\ clock = 0
  /\ tmpDirs = {}
  /\ pc = "idle"
  /\ run = DownloadRun

\* downloadAndExtract up to the archive request: the ref, the temporary
\* directory, the URL
DownloadStart ==
  /\ pc = "idle"
  /\ LET source == IF world.source.ref = ""
                   THEN [world.source EXCEPT !.ref = resolveDefaultBranch(world.api)]
                   ELSE world.source
     IN run' = [run EXCEPT !.source = source, !.archiveUrl = ArchiveUrl(source)]
  /\ tmpDirs' = tmpDirs \cup {1}
  /\ pc' = "dl_fetch"
  /\ UNCHANGED <<world, manifest, lockFile, disk, clock>>

\* the throw of an error inside the try: the directory is removed and the
\* catch decides the message
DownloadThrow(msg) ==
  /\ tmpDirs' = cleanupTemp(tmpDirs, 1)
  /\ run' = [run EXCEPT !.status = "error", !.message = CatchMessage(msg, run.source)]
  /\ pc' = "done"

\* the archive request and its answer
DownloadFetch ==
  /\ pc = "dl_fetch"
  /\ IF world.archive.kind = "throw"
     THEN DownloadThrow(world.archive.message)
     ELSE IF ~ResponseOk(world.archive)
     THEN DownloadThrow(HttpErrorMessage(world.archive, run.archiveUrl))
     ELSE /\ pc' = "dl_extract"
          /\ UNCHANGED <<run, tmpDirs>>
  /\ UNCHANGED <<world, manifest, lockFile, disk, clock>>

\* gunzip, extractTar and the search of the repository directory
DownloadExtract ==
  /\ pc = "dl_extract"
  /\ IF world.archive.body = "not gzip"
     THEN DownloadThrow("incorrect header check")
     ELSE IF world.archive.body = "no repo dir"
     THEN DownloadThrow("Could not find extracted repository directory")
     ELSE /\ run' = [run EXCEPT !.status = "ok",
                                !.result = run.source.repo \o "-" \o run.source.ref]
          /\ pc' = "done"
          /\ UNCHANGED tmpDirs
  /\ UNCHANGED <<world, manifest, lockFile, disk, clock>>

NextDownload == DownloadStart \/ DownloadFetch \/ DownloadExtract

SpecDownload == InitDownload /\ [][NextDownload]_vars

\* ------------------------------------------------------------------
\* two skill add invocations against the same project, side by side
\*
\* Each invocation is a process of its own: run[p] holds its locals, the
\* lock file and the skill directories are shared. Every await of
\* skillAddCommand from loadLock on is a place where the other invocation
\* may run. Invocation p has chosen one skill of the repository it downloaded.
\* ------------------------------------------------------------------

Invocations == {1, 2}

\* a lock file that an earlier add has left
EarlierLock ==
  addSkillToLock(createEmptyLock, "planner",
                 [source |-> <<"github:", "acme", "/", "plans">>, sourceType |-> "github",
                  ref |-> "main", path |-> ""],
                 <<"claude">>, 0)

ConcRun(skillName) ==
  [cmd |-> "add", at |-> "start", status |-> "running", skill |-> skillName,
   lock |-> createEmptyLock, order |-> 0, sawSaves |-> 0]

InitConc ==
  /\ world = MainWorld
  /\ manifest \in {<<"claude">>, <<"claude", "opencode">>}
  /\ lockFile \in {NoFile, EarlierLock}
  /\ disk = {}
  /\ clock = 0
  /\ tmpDirs = {}
  /\ pc = "conc"
  /\ run \in [Invocations -> {ConcRun(n) : n \in SkillNames}]

\* the number of saveLock calls made so far
SavesDone == Cardinality({q \in Invocations : run[q].at = "done"})

\* steps 1 to 5 of skillAddCommand: the archive is in its temporary directory
\* and one skill is selected
ConcDownload(p) ==
  /\ pc = "conc"
  /\ run[p].at = "start"
  /\ tmpDirs' = tmpDirs \cup {p}
  /\ run' = [run EXCEPT ![p].at = "downloaded"]
  /\ UNCHANGED <<world, manifest, lockFile, disk, clock, pc>>

\* step 6: loadLock
ConcLoad(p) ==
  /\ pc = "conc"
  /\ run[p].at = "downloaded"
  /\ run' = [run EXCEPT ![p].at = "loaded", ![p].lock = loadLock(lockFile),
                        ![p].sawSaves = SavesDone]
  /\ UNCHANGED <<world, manifest, lockFile, disk, clock, tmpDirs, pc>>

\* step 7: installSkillForAgent for every agent, then addSkillToLock on the
\* invocation's own copy
ConcInstall(p) ==
  /\ pc = "conc"
  /\ run[p].at = "loaded"
  /\ disk' = disk \cup {<<manifest[i], run[p].skill>> : i \in 1..Len(manifest)}
  /\ run' = [run EXCEPT ![p].at = "installed",
                        ![p].lock = addSkillToLock(@, run[p].skill,
                                      [source |-> <<"github:", "acme", "/", "pack">>,
                                       sourceType |-> "github", ref |-> "main",
                                       path |-> "skills/" \o run[p].skill],
                                      getAgents(manifest), clock + 1)]
  /\ UNCHANGED <<world, manifest, lockFile, clock, tmpDirs, pc>>

\* step 8 writing the union of the file and of the invocation's copy
ConcSave_Merge(p) ==
  /\ pc = "conc"
  /\ run[p].at = "installed"
  /\ LET file == loadLock(lockFile)
     IN lockFile' = saveLock([run[p].lock EXCEPT
                       !.skills = @ \o SelectSeq(file.skills,
                                     LAMBDA e : e.name \notin SkillKeySet(run[p].lock))])
  /\ tmpDirs' = cleanupTemp(tmpDirs, p)
  /\ run' = [run EXCEPT ![p].at = "done", ![p].status = "ok", ![p].order = SavesDone + 1]
  /\ UNCHANGED <<world, manifest, disk, clock, pc>>

\* step 8: saveLock, then the finally block
ConcSave(p) ==
  /\ pc = "conc"
  /\ run[p].at = "installed"
  /\ lockFile' = saveLock(run[p].lock)
  /\ tmpDirs' = cleanupTemp(tmpDirs, p)
  /\ run' = [run EXCEPT ![p].at = "done", ![p].status = "ok", ![p].order = SavesDone + 1]
  /\ UNCHANGED <<world, manifest, disk, clock, pc>>

NextConc ==
  \E p \in Invocations : ConcDownload(p) \/ ConcLoad(p) \/ ConcInstall(p) \/ ConcSave(p)

SpecConc == InitConc /\ [][NextConc]_vars

TypeOK ==
  /\ pc \in {"idle", "done", "add_download", "add_install", "add_save",
            "upd_group", "upd_download", "sync_group", "sync_download",
            "lock_added", "lock_removed", "detected", "tar_loop", "tar_done",
            "parsed", "formatted", "reparsed", "dl_fetch", "dl_extract", "conc"}
  /\ clock \in 0..(MaxClock + 1)

\* ------------------------------------------------------------------
\* Properties
\* ------------------------------------------------------------------

\* the lock record as the next command will load it
Persisted == loadLock(lockFile)

\* the lock record the running command has loaded
Loaded == loadLock(run.startLock)

Finished(cmd) == pc = "done" /\ run.cmd = cmd

\* C1: every skill name listed in an entry of lock.agents of the persisted lock
\* is a key of lock.skills, after any sequence of commands and manifest changes.
C1_NoDanglingSkill ==
  \A id \in AgentKeySet(Persisted) : Range(AgentSkills(Persisted, id)) \subseteq SkillKeySet(Persisted)

\* a remove has deleted one of two skills: the agents still list the other one
C1_Witness ==
  /\ Finished("remove") /\ run.saved = 1
  /\ Len(Loaded.skills) = 2
  /\ Len(Persisted.skills) = 1
  /\ Persisted.agents # <<>>

\* C2: no agent id of the persisted lock is mapped to an empty list of skills.
C2_NoEmptyAgentEntry ==
  \A id \in AgentKeySet(Persisted) : Len(AgentSkills(Persisted, id)) > 0

\* a remove has taken the last skill of one agent while another agent keeps an entry
C2_Witness ==
  /\ Finished("remove") /\ run.saved = 1
  /\ AgentKeySet(Persisted) # {}
  /\ AgentKeySet(Persisted) # AgentKeySet(Loaded)

\* C3: after `skill remove` has removed a skill, the skill's directory is absent
\* from the skills directory of every agent declared in the manifest.
C3_RemovedFromEveryDeclaredAgent ==
  (Finished("remove") /\ run.status = "ok" /\ run.names # <<>>)
    => \A i \in 1..Len(run.agents), n \in Range(run.names) :
         ~skillExistsForAgent(disk, run.agents[i], n)

C5_ListedOnlyIfMaterialized ==
  (Finished("sync") /\ run.status = "ok" /\ run.saved = 1)
    => \A i \in 1..Len(run.agents) :
         \A n \in Range(AgentSkills(Persisted, run.agents[i])) :
           skillExistsForAgent(disk, run.agents[i], n)

\* C6: after sync returns on a lock with at least one skill, the keys of
\* lock.agents are the declared agent ids, every entry lists every key of
\* lock.skills, and the directories of agents that are not declared are untouched.
C6_SyncAgentsMatchManifest ==
  (Finished("sync") /\ run.status = "ok" /\ Len(Loaded.skills) > 0)
    => /\ run.saved = 1
       /\ AgentKeySet(Persisted) = Range(run.agents)
       /\ \A id \in AgentKeySet(Persisted) :
            SkillKeySet(Persisted) \subseteq Range(AgentSkills(Persisted, id))
       /\ {d \in disk : d[1] \notin Range(run.agents)}
            = {d \in run.startDisk : d[1] \notin Range(run.agents)}

\* sync has deleted the entry of an agent that is not declared any more and
\* whose skill directory is still on disk
C6_Witness ==
  /\ Finished("sync") /\ run.status = "ok" /\ Len(Loaded.skills) > 0
  /\ \E d \in disk : d[1] \in run.cleaned
  /\ run.installed # {}

\* the pairs of a known skill and a declared agent whose directory was missing
\* when the running command started
MissingAtStart ==
  {d \in Range(run.agents) \X SkillKeySet(Loaded) : d \notin run.startDisk}

\* C7: sync schedules exactly the pairs (declared agent, known skill) whose
\* directory is missing on disk, whatever lock.agents lists; it installs no other
\* pair; and when it returns, every scheduled pair whose group was downloaded and
\* whose skill was detected has been installed.
C7_SyncSchedulesMissingPairs ==
  (run.cmd = "sync" /\ run.status # "exit1")
    => /\ Scheduled(run.groups) = MissingAtStart
       /\ run.installed \subseteq Scheduled(run.groups)
       /\ (pc = "done" /\ run.status = "ok")
            => \A i \in 1..Len(run.groups) :
                 run.glog[i].outcome = "processed"
                   => \A j \in 1..Len(run.groups[i].skills) :
                        LET sk == run.groups[i].skills[j]
                        IN FindDetected(run.glog[i].detected, sk.name,
                                        SkillInfo(Loaded, sk.name).path) # NoMatch
                             => \A k \in 1..Len(sk.agents) :
                                  /\ <<sk.agents[k], sk.name>> \in run.installed
                                  /\ <<sk.agents[k], sk.name>> \in disk

\* sync has re-installed a skill for an agent whose lock entry listed it already,
\* and for an agent whose lock entry did not list it
C7_Witness ==
  /\ Finished("sync") /\ run.status = "ok"
  /\ \E d \in run.installed : Includes(AgentSkills(Loaded, d[1]), d[2])
  /\ \E d \in run.installed : ~Includes(AgentSkills(Loaded, d[1]), d[2])
  /\ \E d \in disk : d \in run.startDisk /\ d[1] \in Range(run.agents)

\* C8: in update and sync every source group is processed and the lock is
\* persisted, whatever error one group runs into.
C8_GroupErrorsCaught ==
  (pc = "done" /\ run.cmd \in {"update", "sync"} /\ run.groups # <<>>)
    => /\ Len(run.glog) = Len(run.groups)
       /\ run.saved = 1

\* C9: in update a download failure of one group does not end the command:
\* the next group is gone on to, the skills of the failed group keep their lock
\* entries, and a run whose only failures are download failures goes through
\* all the groups and persists the lock.
C9_UpdateDownloadFailureContinues ==
  run.cmd = "update"
    => /\ \A i \in 1..Len(run.glog) :
            run.glog[i].outcome = "download failed"
              => /\ \A n \in Range(run.groups[i].skills) :
                      SkillInfo(run.lock, n) = SkillInfo(Loaded, n)
                 /\ (pc = "done" /\ Len(run.glog) = i) => i = Len(run.groups)
       /\ (pc = "done" /\ run.groups # <<>>
             /\ \A i \in 1..Len(run.glog) : run.glog[i].outcome \in {"download failed", "processed"})
            => /\ Len(run.glog) = Len(run.groups)
               /\ run.saved = 1
               /\ lockFile = run.lock

\* the download of the first of two groups failed, the second group was
\* processed and its skill got a new installedAt, the lock was persisted
C9_Witness ==
  /\ Finished("update") /\ run.status = "ok" /\ run.saved = 1
  /\ Len(run.groups) = 2
  /\ run.glog[1].outcome = "download failed"
  /\ run.glog[2].outcome = "processed"
  /\ \A n \in Range(run.groups[1].skills) : SkillInfo(Persisted, n) = SkillInfo(Loaded, n)
  /\ \E n \in Range(run.groups[2].skills) : SkillInfo(Persisted, n).installedAt = clock
  /\ run.installed # {}

\* C10: when an add, update or sync command has ended, on any exit path, no
\* temporary extraction directory it created exists any more.
C10_NoTempDirLeft ==
  (pc = "done" /\ run.cmd \in {"add", "update", "sync"}) => tmpDirs = {}

\* C11: a command writes the lock file at most once, the write is the last
\* thing it does to the lock and stores the whole record it has computed, and
\* as long as the command has not written, the lock file is what it was when
\* the command started.
C11_SingleWriteAtEnd ==
  run.cmd \in {"add", "remove", "update", "sync"}
    => /\ run.saved \in {0, 1}
       /\ run.saved = 0 => lockFile = run.startLock
       /\ run.saved = 1 => pc = "done" /\ run.status = "ok" /\ lockFile = run.lock

\* an update has failed after it had changed the lock record in memory (the
\* installedAt of a reinstalled skill): the lock file is untouched
C11_Witness ==
  /\ Finished("update") /\ run.status = "error" /\ run.saved = 0
  /\ run.installed # {}
  /\ run.lock # Loaded
  /\ lockFile = run.startLock

\* C12: update and sync never add or delete a key of lock.skills, in memory or
\* in the lock file; a key appears in the lock file only by a step of add and
\* disappears only by a step of remove.
C12_SkillKeysOnlyByAddRemove ==
  /\ [](run.cmd \in {"update", "sync"}
          => /\ SkillKeySet(Persisted) = SkillKeySet(Loaded)
             /\ run.names # <<>> => getAllSkillNames(run.lock) = getAllSkillNames(Loaded))
  /\ [][/\ SkillKeySet(Persisted)' \ SkillKeySet(Persisted) # {} => run'.cmd = "add"
        /\ SkillKeySet(Persisted) \ SkillKeySet(Persisted)' # {} => run'.cmd = "remove"]_vars

\* an update has reinstalled one of two skills and has not found the other one
\* in the repository: both keep their key, only the first has a new installedAt
C12_Witness ==
  /\ Finished("update") /\ run.status = "ok" /\ run.saved = 1
  /\ Len(run.names) = 2
  /\ \E n \in Range(run.names) : SkillInfo(Persisted, n) = SkillInfo(Loaded, n)
  /\ \E n \in Range(run.names) : SkillInfo(Persisted, n).installedAt # SkillInfo(Loaded, n).installedAt

\* the number of times x occurs in the sequence s
Count(s, x) == Cardinality({i \in 1..Len(s) : s[i] = x})

\* C13: no agent's list of the persisted lock ever holds a name twice; after an
\* add, each declared agent's list holds each added name exactly once, whether
\* or not it held it before, and adding the name for the same agents again
\* would leave lock.agents as it is.
C13_AddIdempotentOnAgents ==
  /\ \A id \in AgentKeySet(Persisted) :
       \A n \in Range(AgentSkills(Persisted, id)) : Count(AgentSkills(Persisted, id), n) = 1
  /\ (Finished("add") /\ run.saved = 1)
       => \A k \in 1..Len(run.selectedSkills) :
            /\ \A i \in 1..Len(run.agents) :
                 Count(AgentSkills(Persisted, run.agents[i]), run.selectedSkills[k].name) = 1
            /\ AddSkillForAgents(Persisted.agents, run.agents, run.selectedSkills[k].name)
                 = Persisted.agents

\* a skill was added again for two agents of which one listed it already, next
\* to another skill
C13_Witness ==
  /\ Finished("add") /\ run.saved = 1
  /\ Len(run.agents) = 2
  /\ \E k \in 1..Len(run.selectedSkills) :
       /\ Includes(AgentSkills(Loaded, run.agents[1]), run.selectedSkills[k].name)
       /\ Len(AgentSkills(Loaded, run.agents[1])) = 2
       /\ ~Includes(AgentSkills(Loaded, run.agents[2]), run.selectedSkills[k].name)

\* C14: for a lock record, a skill name s that is not a key of its skills and a
\* list A of agent ids, addSkillToLock(s, A) followed by removeSkillFromLock(s)
\* gives a record without s in skills, with s in no agent's list and with no
\* empty agent entry; the skills and every agent that listed a skill before are
\* as they were.
C14_AddThenRemove ==
  (pc = "lock_removed" /\ run.names[1] \notin SkillKeySet(Loaded))
    => /\ run.names[1] \notin SkillKeySet(run.lock)
       /\ run.lock.skills = Loaded.skills
       /\ \A id \in AgentKeySet(run.lock) :
            /\ ~Includes(AgentSkills(run.lock, id), run.names[1])
            /\ Len(AgentSkills(run.lock, id)) > 0
       /\ \A id \in AgentKeySet(Loaded) :
            Len(AgentSkills(Loaded, id)) > 0
              => /\ id \in AgentKeySet(run.lock)
                 /\ AgentSkills(run.lock, id) = AgentSkills(Loaded, id)

\* a new skill was added for two agents, one with two other skills and one
\* without an entry, and removed again
C14_Witness ==
  /\ pc = "lock_removed" /\ run.names[1] \notin SkillKeySet(Loaded)
  /\ Len(run.agents) = 2
  /\ Len(AgentSkills(Loaded, run.agents[1])) = 2
  /\ run.agents[2] \notin AgentKeySet(Loaded)
  /\ AgentKeySet(run.lock) = {run.agents[1]}

\* C15: a command that has reported a failure (no agents configured, a named
\* skill that is not in the lock, a download failure of a group, a skill that
\* is not found in the repository, ...) ends with a non-zero outcome.
C15_FailureExitsNonZero ==
  (pc = "done" /\ run.failures # {}) => run.status \in {"exit1", "error"}

\* C16: an add that has saved records, for every skill it installed, the source
\* github:<owner>/<repo> of the URI it was given, the ref (of the URI, or the
\* default branch when the URI has none), the skill's relative path, and lists
\* the skill for every declared agent; in particular adding "writer" from
\* github:acme/pack#dev for claude and opencode gives source "github:acme/pack",
\* ref "dev" and "writer" in the lists of both agents.
C16_AddRecordsProvenance ==
  (Finished("add") /\ run.saved = 1)
    => LET given == parseRemoteSource(run.source)
       IN /\ \A k \in 1..Len(run.selectedSkills) :
               LET sk == run.selectedSkills[k]
                   info == SkillInfo(Persisted, sk.name)
               IN /\ Join(info.source, "") = "github:" \o given.owner \o "/" \o given.repo
                  /\ info.sourceType = "github"
                  /\ IF given.ref # "" THEN info.ref = given.ref ELSE info.ref \in world.branches
                  /\ info.path = sk.relativePath
                  /\ \A i \in 1..Len(run.agents) :
                       Includes(AgentSkills(Persisted, run.agents[i]), sk.name)
          /\ (/\ run.source = <<"github:", "acme", "/", "pack", "#", "dev">>
              /\ run.agents = <<"claude", "opencode">>
              /\ \E k \in 1..Len(run.selectedSkills) : run.selectedSkills[k].name = "writer")
               => /\ Join(SkillInfo(Persisted, "writer").source, "") = "github:acme/pack"
                  /\ SkillInfo(Persisted, "writer").ref = "dev"
                  /\ Includes(AgentSkills(Persisted, "claude"), "writer")
                  /\ Includes(AgentSkills(Persisted, "opencode"), "writer")

\* "writer" was added from github:acme/pack#dev, out of a collection, for claude
\* and opencode
C16_Witness ==
  /\ Finished("add") /\ run.saved = 1 /\ run.status = "ok"
  /\ run.source = <<"github:", "acme", "/", "pack", "#", "dev">>
  /\ run.agents = <<"claude", "opencode">>
  /\ \E k \in 1..Len(run.selectedSkills) :
       /\ run.selectedSkills[k].name = "writer"
       /\ run.selectedSkills[k].relativePath = "skills/writer"
  /\ {<<"claude", "writer">>, <<"opencode", "writer">>} \subseteq disk

\* the repository detectSkills was called on
Detected == CHOOSE tree \in world.trees : TRUE

\* the subdirectories with a SKILL.md that a scan does not skip
SkillDirs(children) == {c \in Range(children) : c.hasMd /\ c.dir \notin SkippedDirs}

\* C17: detection is ordered, the first pattern that matches wins: with SKILL.md
\* at the root the result is the single root skill with empty relative path,
\* whatever skills/ and the other directories hold; otherwise the skills under
\* skills/ if there is one; otherwise the first-level skills if there is one;
\* otherwise detection fails. A result is never the empty list.
C17_DetectPrecedence ==
  pc = "detected"
    => LET t == Detected
           res == run.allDetected
           paths == {res[i].relativePath : i \in 1..Len(res)}
           inSkills == IF t.hasSkillsDir THEN SkillDirs(t.skills) ELSE {}
           inTop == SkillDirs(t.top)
       IN /\ run.status = "ok" <=> Len(res) > 0
          /\ t.rootMd
               => /\ Len(res) = 1
                  /\ res[1].relativePath = ""
                  /\ res[1].name = (IF t.rootName # "" THEN t.rootName ELSE DetectDirName)
          /\ (~t.rootMd /\ inSkills # {})
               => /\ Len(res) = Cardinality(inSkills)
                  /\ paths = {"skills/" \o c.dir : c \in inSkills}
          /\ (~t.rootMd /\ inSkills = {} /\ inTop # {})
               => /\ Len(res) = Cardinality(inTop)
                  /\ paths = {c.dir : c \in inTop}
          /\ (~t.rootMd /\ inSkills = {} /\ inTop = {}) => run.status = "error"

\* detection on a repository with SKILL.md at the root, skills under skills/ and
\* a first-level skill directory
C17_Witness ==
  /\ pc = "detected" /\ run.status = "ok"
  /\ Detected.rootMd
  /\ Detected.hasSkillsDir /\ Cardinality(SkillDirs(Detected.skills)) = 2
  /\ SkillDirs(Detected.top) # {}

\* the number of bytes the entries of the archive take, without the end marker
EntriesLength == BlockSize * (Len(world.blocks) - 2)

\* the buffer is cut inside an entry, or a header's size field is not an octal number
Malformed ==
  \/ world.length < EntriesLength
  \/ \E i \in 1..Len(world.entries) : ~world.entries[i].sizeOk

\* C18: extractTar on a malformed buffer (cut in the middle of a header or of
\* a file's data, or with a size field that is not an octal number) fails; it
\* never returns normally with a file shorter than the size its header
\* declares, or without the entries that follow.
C18_MalformedFails ==
  pc = "tar_done"
    => /\ Malformed => run.status = "error"
       /\ run.status = "ok"
            => /\ \A k \in 1..Len(run.written) :
                    run.written[k].type = "file"
                      => run.written[k].length = HeaderAt(world, run.written[k].at).size
               /\ \A i \in 1..Len(world.entries) :
                    world.entries[i].typeFlag \in {"0", "5"}
                      => \E k \in 1..Len(run.written) :
                           HeaderAt(world, run.written[k].at).entry = i

\* the path record that applies to the entry after entry j: the nearest one in
\* the run of extended headers that ends with entry j
RECURSIVE PaxFor(_, _)
PaxFor(es, j) ==
  IF j = 0 THEN NoName
  ELSE IF es[j].typeFlag \notin {"x", "g"} THEN NoName
  ELSE IF es[j].pax # NoName THEN es[j].pax
  ELSE PaxFor(es, j - 1)

\* the name entry i is to be extracted with
ExpectedName(es, i) == IF PaxFor(es, i - 1) # NoName THEN PaxFor(es, i - 1) ELSE es[i].name

\* C19: a path record of a PAX extended header names the next entry that is
\* not an extended header, whatever extended headers lie in between, and no
\* entry after that one: every directory and file of a well-formed archive is
\* created under the path record that applies to it, or else under its own name.
C19_PaxPathNamesNextEntry ==
  (pc = "tar_done" /\ ~Malformed)
    => \A k \in 1..Len(run.written) :
         run.written[k].path
           = ExpectedName(world.entries, HeaderAt(world, run.written[k].at).entry)

\* the strings of a RemoteSource kept as tokens
SourceStrings(p) ==
  [ok |-> p.ok, host |-> IF p.ok THEN "github" ELSE "", owner |-> Join(p.owner, ""),
   repo |-> Join(p.repo, ""),
   skillPath |-> IF p.hasPath THEN Join(p.skillPath, "") ELSE None,
   ref |-> Join(p.ref, "")]

\* C20: for a valid shorthand reference github:o/r[/p][#ref], parsing the
\* formatted parse result gives the owner, repo and skillPath of the first
\* parse, and its ref, except that a ref "main" comes back as the empty ref.
C20_ParseFormatRoundTrip ==
  /\ pc \in {"parsed", "formatted", "reparsed"}
       => /\ run.parsed.ok
          /\ parseRemoteSource(run.source) = SourceStrings(run.parsed)
  /\ pc = "reparsed"
       => /\ run.reparsed.ok
          /\ run.reparsed.owner = run.parsed.owner
          /\ run.reparsed.repo = run.parsed.repo
          /\ run.reparsed.hasPath = run.parsed.hasPath
          /\ run.reparsed.skillPath = run.parsed.skillPath
          /\ run.reparsed.ref = (IF run.parsed.ref = <<"main">> THEN <<>> ELSE run.parsed.ref)
          /\ parseRemoteSource(run.formatted) = SourceStrings(run.reparsed)

\* the round trip of a reference with a skill path of two segments and a ref
\* that holds a "/" and a "#"
C20_Witness ==
  /\ pc = "reparsed" /\ run.status = "ok"
  /\ run.parsed.skillPath = <<"skills", "/", "writer">>
  /\ run.parsed.ref = <<"dev", "/", "#">>
  /\ run.formatted = run.source

\* the agents whose entry of the loaded lock lists the skill
HoldersAtStart(skillName) ==
  {id \in AgentKeySet(Loaded) : Includes(AgentSkills(Loaded, id), skillName)}

\* the skill of group i was found among the skills detected for that group
FoundInGroup(i, skillName) ==
  /\ i <= Len(run.glog)
  /\ run.glog[i].outcome \in {"processed", "install failed"}
  /\ FindDetected(run.glog[i].detected, skillName, SkillInfo(Loaded, skillName).path) # NoMatch

\* C21: in update, a skill that is found in the detected set is installed again
\* for every agent whose lock.agents entry lists it and gets a new
\* installedAt; installedAt is new only for a skill that was installed again
\* for all those agents.
C21_UpdateReinstallsForHolders ==
  run.cmd = "update"
    => \A i \in 1..Len(run.groups) : \A n \in Range(run.groups[i].skills) :
         /\ (FoundInGroup(i, n) /\ run.glog[i].outcome = "processed")
              => /\ \A id \in HoldersAtStart(n) : <<id, n>> \in run.installed
                 /\ SkillInfo(run.lock, n).installedAt = clock + 1 - run.saved
         /\ SkillInfo(run.lock, n).installedAt # SkillInfo(Loaded, n).installedAt
              => \A id \in HoldersAtStart(n) : <<id, n>> \in run.installed

\* the names of the skills of group i of the running update or sync
GroupSkillNames(i) ==
  IF run.cmd = "sync"
  THEN {run.groups[i].skills[j].name : j \in 1..Len(run.groups[i].skills)}
  ELSE Range(run.groups[i].skills)

\* C22: in update and sync a locked skill is matched by name first and by its
\* stored path only as a fallback: when a detected skill has the locked
\* skill's name, the detected skill that is installed has that name, even when
\* another detected skill sits at the stored path.
C22_NameMatchFirst ==
  run.cmd \in {"update", "sync"}
    => \A i \in 1..Len(run.glog) :
         run.glog[i].outcome = "processed"
           => \A n \in GroupSkillNames(i) :
                (\E k \in 1..Len(run.glog[i].detected) : run.glog[i].detected[k].name = n)
                  => FindDetected(run.glog[i].detected, n, SkillInfo(Loaded, n).path).name = n

\* the groups of the running update that hold the skill
GroupsOf(skillName) == {i \in 1..Len(run.groups) : Includes(run.groups[i].skills, skillName)}

\* C23: update makes one group, and so one download, extraction and detection,
\* per distinct pair (source, ref) of the chosen skills: every chosen skill is
\* in exactly one group, once; two chosen skills are in the same group if and
\* only if their lock entries have the same source and the same ref; the
\* groups hold nothing else; and each group is downloaded at most once, and
\* exactly once when the command has saved.
C23_OneCyclePerSourceRef ==
  (run.cmd = "update" /\ run.groups # <<>>)
    => /\ \A n \in Range(run.names) :
            /\ Cardinality(GroupsOf(n)) = 1
            /\ \A i \in GroupsOf(n) : Count(run.groups[i].skills, n) = 1
       /\ \A n1, n2 \in Range(run.names) :
            GroupsOf(n1) = GroupsOf(n2)
              <=> /\ SkillInfo(Loaded, n1).source = SkillInfo(Loaded, n2).source
                  /\ SkillInfo(Loaded, n1).ref = SkillInfo(Loaded, n2).ref
       /\ \A i \in 1..Len(run.groups) :
            /\ run.groups[i].skills # <<>>
            /\ Range(run.groups[i].skills) \subseteq Range(run.names)
       /\ Len(run.glog) <= Len(run.groups)
       /\ Len(run.glog) + Cardinality(tmpDirs) \in {run.gi - 1, run.gi}
       /\ run.saved = 1 => Len(run.glog) = Len(run.groups)

\* an update of two skills of the same source and of different refs has made
\* two groups and has downloaded both
C23_Witness ==
  /\ Finished("update") /\ run.saved = 1
  /\ Len(run.names) = 2 /\ Len(run.groups) = 2
  /\ run.groups[1].source = run.groups[2].source
  /\ run.groups[1].ref # run.groups[2].ref
  /\ \A i \in 1..2 : run.glog[i].outcome = "processed"

\* C24: in an update or sync command the downloads are sequential: at every
\* moment at most one temporary directory of the command exists, the one of
\* the group being processed, and the download of a group starts only when no
\* temporary directory exists.
C24_DownloadsSequential ==
  /\ [](run.cmd \in {"update", "sync"}
          => /\ Cardinality(tmpDirs) <= 1
             /\ tmpDirs = (IF pc \in {"upd_download", "sync_download"} THEN {run.gi} ELSE {}))
  /\ [][(run'.cmd \in {"update", "sync"} /\ tmpDirs' \ tmpDirs # {}) => tmpDirs = {}]_vars

\* the second group of an update is being downloaded after the first group
\* was processed
C24_Witness ==
  /\ run.cmd = "update" /\ pc = "upd_download"
  /\ run.gi = 2 /\ tmpDirs = {2}
  /\ run.glog[1].outcome = "processed"

\* String.prototype.lastIndexOf on tokens, 0 when absent
LastIndexOf(tokens, t) ==
  IF Includes(tokens, t)
  THEN CHOOSE i \in 1..Len(tokens) :
         tokens[i] = t /\ \A j \in (i + 1)..Len(tokens) : tokens[j] # t
  ELSE 0

\* C26: parse cuts the reference at its last "#": the ref is what follows the
\* last "#", and owner, repo and skillPath are read from all that precedes it.
C26_RefAfterLastHash ==
  pc \in {"parsed", "formatted", "reparsed"}
    => LET body0 == Tail(run.source)
           k     == LastIndexOf(body0, "#")
           parts == SplitSlashTokens(SubSeq(body0, 1, k - 1), <<>>, <<>>)
       IN k # 0
            => /\ run.parsed.ref = SubSeq(body0, k + 1, Len(body0))
               /\ Len(parts) >= 2
               /\ run.parsed.owner = parts[1]
               /\ run.parsed.repo = parts[2]
               /\ run.parsed.skillPath = JoinTokens(SubSeq(parts, 3, Len(parts)))

\* C27: a reference that parse returns has an owner and a repo that are not
\* empty, and a skillPath that, when present, is not empty and does not start
\* with "/"; a reference whose owner or repo is missing or empty is refused.
C27_ParsedPartsNonEmpty ==
  pc # "idle"
    => LET body0 == Tail(run.source)
           k     == IndexOf(body0, "#")
           parts == SplitSlashTokens(IF k = 0 THEN body0 ELSE SubSeq(body0, 1, k - 1),
                                     <<>>, <<>>)
       IN /\ run.parsed.ok
               => /\ run.parsed.owner # <<>>
                  /\ run.parsed.repo # <<>>
                  /\ run.parsed.hasPath
                       => /\ run.parsed.skillPath # <<>>
                          /\ Head(run.parsed.skillPath) # "/"
          /\ (run.source # <<>> /\ Head(run.source) = "github:"
                /\ (Len(parts) < 2 \/ parts[1] = <<>> \/ parts[2] = <<>>))
               => (~run.parsed.ok /\ run.status = "error")

\* C25: when the archive request is answered by a response that is not 2xx,
\* downloadAndExtract fails, and the message of its error holds the archive
\* URL and the status of the response.
C25_HttpErrorHasUrlAndStatus ==
  (run.cmd = "download" /\ pc = "done"
     /\ world.archive.kind = "response" /\ ~ResponseOk(world.archive))
    => /\ run.status = "error"
       /\ StrIncludes(run.message, run.archiveUrl)
       /\ StrIncludes(run.message, ToString(world.archive.status))

\* the type flags extractTar neither writes nor reads as extended headers
SkippedTypes == {"1", "2"}

\* the offset of the header of entry i in the archive
RECURSIVE HeaderOffset(_, _)
HeaderOffset(es, i) ==
  IF i <= 1 THEN 0
  ELSE HeaderOffset(es, i - 1) + BlockSize * (1 + es[i - 1].blocks)

\* C28: the offset extractTar reads at is a multiple of 512; after each entry
\* whose size field is a number it stands at the header of the next entry,
\* past the header and the padded data of the entry, be the entry written, a
\* directory or of a skipped type; an entry that follows a skipped entry is
\* read at its own header and is created under its own name with its own data.
C28_OffsetAtHeaderBoundary ==
  /\ run.cmd = "extractTar" /\ ~run.nan
       => /\ run.offset % BlockSize = 0
          /\ run.steps <= Len(world.entries)
          /\ run.offset = HeaderOffset(world.entries, run.steps + 1)
  /\ run.cmd = "extractTar" /\ pc = "tar_loop" /\ TarContinues
       => /\ HeaderAt(world, run.offset).kind = "header"
          /\ HeaderAt(world, run.offset).entry = run.steps + 1
  /\ run.cmd = "extractTar"
       => \A k \in 1..Len(run.written) :
            LET w == run.written[k]
                h == HeaderAt(world, w.at)
            IN /\ h.kind = "header"
               /\ w.at = HeaderOffset(world.entries, h.entry)
               /\ (h.entry > 1 /\ world.entries[h.entry - 1].typeFlag \in SkippedTypes)
                    => /\ w.path = world.entries[h.entry].name
                       /\ (w.type = "file" /\ h.sizeOk)
                            => w.length = SubarrayLength(world, w.at + BlockSize,
                                                         w.at + BlockSize + h.size)

\* a file of 700 bytes was written whole from the header that follows a hard
\* link with two data blocks
C28_Witness ==
  /\ run.cmd = "extractTar" /\ pc = "tar_done"
  /\ \E k \in 1..Len(run.written) :
       /\ run.written[k].type = "file"
       /\ run.written[k].length = 700
       /\ run.written[k].at = 3 * BlockSize
       /\ world.entries[1].typeFlag = "1"
       /\ run.written[k].path = world.entries[2].name

\* the path p is the directory root or lies below it
IsUnder(root, p) == Len(p) >= Len(root) /\ SubSeq(p, 1, Len(root)) = root

\* C29: every directory and every file extractTar creates lies under the
\* destination directory, whatever the name of the entry: a raw name, a name
\* joined to a prefix or a PAX path, with ".." segments or a leading "/".
C29_ExtractsUnderRoot ==
  run.cmd = "extractTar" => \A d \in disk : IsUnder(DestDir, d.path)

\* both invocations have returned
BothDone == pc = "conc" /\ \A p \in Invocations : run[p].at = "done"

\* the invocation that saved last
LastSaver == CHOOSE p \in Invocations : run[p].order = Cardinality(Invocations)

\* C30: two add invocations side by side are not kept apart by any lock: each
\* loads the lock file, changes its own copy and writes that copy over the
\* whole file. When both have returned, both have succeeded, the directories of
\* both skills exist, and the file is the copy of the invocation that saved
\* last: the entry of the other one is in it only if it was in the file the
\* last one loaded, and is lost otherwise.
C30_LastSaveOverwrites ==
  BothDone
    => /\ \A p \in Invocations :
            /\ run[p].status = "ok"
            /\ \A i \in 1..Len(manifest) : <<manifest[i], run[p].skill>> \in disk
            /\ run[p].skill \in SkillKeySet(run[p].lock)
       /\ lockFile = run[LastSaver].lock
       /\ \A p \in Invocations \ {LastSaver} :
            run[p].skill \in SkillKeySet(lockFile)
              <=> \/ run[p].skill = run[LastSaver].skill
                  \/ run[LastSaver].sawSaves = 1

\* both adds have succeeded, the directories of both skills exist and the
\* lock file lacks the skill of one of them
C30_Witness ==
  /\ BothDone
  /\ \A p \in Invocations :
       /\ run[p].status = "ok"
       /\ \A i \in 1..Len(manifest) : <<manifest[i], run[p].skill>> \in disk
  /\ \E p \in Invocations : run[p].skill \notin SkillKeySet(loadLock(lockFile))

\* C31: extractTar terminates on every buffer: every iteration of the loop
\* leaves the offset greater than it found it, whatever the size field holds
\* (zero, a negative number, no octal number), so the loop makes at most
\* length/512 iterations.
C31_ExtractTerminates ==
  /\ [](run.cmd = "extractTar" => run.steps <= world.length \div BlockSize)
  /\ [][(pc = "tar_loop" /\ pc' = "tar_loop")
          => (~run'.nan /\ run'.offset > run.offset)]_vars

\* the names of the skills the add command has selected
SelectedNames == {run.selectedSkills[k].name : k \in 1..Len(run.selectedSkills)}

\* C32: in every state during or after an add command, what add has put into
\* the lock file is materialized: a skill that is new in the lock file has its
\* directory for every declared agent, and so has every pair of an agent and
\* a skill that is new in the lock file or that the add has recorded.
C32_AddRecordsAfterInstall ==
  run.cmd = "add"
    => /\ \A n \in SkillKeySet(Persisted) \ SkillKeySet(Loaded) :
            \A i \in 1..Len(run.agents) : skillExistsForAgent(disk, run.agents[i], n)
       /\ \A id \in AgentKeySet(Persisted) :
            \A n \in Range(AgentSkills(Persisted, id)) :
              (\/ ~Includes(AgentSkills(Loaded, id), n)
               \/ (run.saved = 1 /\ Includes(run.agents, id) /\ n \in SelectedNames))
                => skillExistsForAgent(disk, id, n)

\* an add for two agents has saved a lock with a skill that was not in it
\* and with one that was, both materialized for both agents
C32_Witness ==
  /\ Finished("add") /\ run.status = "ok" /\ run.saved = 1
  /\ Len(run.agents) = 2
  /\ SkillKeySet(Loaded) # {}
  /\ SkillKeySet(Persisted) \ SkillKeySet(Loaded) # {}
  /\ \A i \in 1..2 : \A n \in SelectedNames :
       /\ Includes(AgentSkills(Persisted, run.agents[i]), n)
       /\ skillExistsForAgent(disk, run.agents[i], n)

====
